---- MODULE Spec2Model ----
(***************************************************************************)
(* NPC DNA generator: the personality-DNA codec (generatePersonalityDna,   *)
(* decodeDna) and the profile section parser of NpcCard.                   *)
(*                                                                         *)
(* A JavaScript string is a sequence of one-character strings, so that     *)
(* indexing, split, join, substring, trim and the regular expressions of   *)
(* the source are computed character by character.                         *)
(***************************************************************************)
EXTENDS Integers, Sequences, FiniteSets, TLC

(***************************************************************************)
(* Bounds of the model.                                                    *)
(***************************************************************************)
\* Math.random() returns k / RandDen for an integer k in 0 .. RandDen - 1.
RandDen == 90
\* The generator's initial state x0 ranges over 0 .. MaxSeed.
MaxSeed == 89
\* The generator's increment w ranges over 0 .. MaxIncrement.
MaxIncrement == 7

VARIABLES
    rng,            \* state of Math.random's generator: [x, w]
    pc,             \* "start", "generated" or "decoded"
    genLocals,      \* locals of the last generatePersonalityDna call
    genDna,         \* string returned by the last generatePersonalityDna call
    decodeArg,      \* argument of the last decodeDna call
    decodeResult,   \* completion of the last decodeDna call, as its caller sees it
    profile,        \* the profile prop of NpcCard: the text of the AI profile
    profileParts,   \* what the text of profile was put together from
    parsedProfile,  \* the value of the parsedProfile memo
    parseWarned,    \* whether the memo's callback called console.warn
    parseLocals,    \* firstSectionIndex and headerLocations of the memo's callback
    cardNpc,        \* the npc prop of NpcCard
    npcParts,       \* the words cardNpc.profession was put together from
    statsLocals,    \* locals of the generateStats call of the stats memo
    stats,          \* the value of the stats memo: generateStats(npc)
    aiClient,       \* whether geminiService's ai is a client (an API key is set)
    appNpc,         \* App state npc
    npcProfile,     \* App state npcProfile
    imageUrl,       \* App state imageUrl
    appDna,         \* App state dna
    appError,       \* App state error
    isProfileLoading, \* App state isProfileLoading
    isImageLoading, \* App state isImageLoading
    profileCall,    \* the call of handleGenerateProfile and its locals
    imageCall       \* the call of handleGenerateImage and its npc

codecVars == <<rng, pc, genLocals, genDna, decodeArg, decodeResult>>
parserVars == <<profile, profileParts, parsedProfile, parseWarned, parseLocals>>
statsVars == <<cardNpc, npcParts, statsLocals, stats>>
appVars == <<aiClient, appNpc, npcProfile, imageUrl, appDna, appError, isProfileLoading,
            isImageLoading, profileCall, imageCall>>
vars == <<rng, pc, genLocals, genDna, decodeArg, decodeResult,
          profile, profileParts, parsedProfile, parseWarned, parseLocals,
          cardNpc, npcParts, statsLocals, stats,
          aiClient, appNpc, npcProfile, imageUrl, appDna, appError, isProfileLoading,
          isImageLoading, profileCall, imageCall>>

(***************************************************************************)
(* JavaScript values and string primitives.                                *)
(***************************************************************************)
DigitChars == <<"0", "1", "2", "3", "4", "5", "6", "7", "8", "9">>

IsDigit(c) == c \in {"0", "1", "2", "3", "4", "5", "6", "7", "8", "9"}

DigitValue(c) == CHOOSE d \in 0..9 : DigitChars[d + 1] = c

\* \s of a regular expression, and the white space parseInt and trim strip
IsWhiteSpace(c) == c \in {" ", "\t", "\n", "\r", "\f"}

\* the characters '.' of a regular expression does not match
IsLineTerminator(c) == c \in {"\n", "\r"}

\* a JavaScript number: an integer, or NaN
Num(v) == [nan |-> FALSE, val |-> v]
NaN == [nan |-> TRUE, val |-> 0]

\* a >= b on numbers: false when a is NaN
NumGe(a, b) == ~a.nan /\ a.val >= b

\* String(n) of a template literal, for an integer n
RECURSIVE NumberToString(_)
NumberToString(n) ==
    IF n < 0 THEN <<"-">> \o NumberToString(-n)
    ELSE IF n < 10 THEN <<DigitChars[n + 1]>>
    ELSE NumberToString(n \div 10) \o <<DigitChars[(n % 10) + 1]>>

\* the string "undefined", which String(undefined) gives
UndefinedString == <<"u", "n", "d", "e", "f", "i", "n", "e", "d">>

\* s[i] with a 0-based index: a one-character string, or undefined
CharAt(s, i) == IF i + 1 <= Len(s) THEN s[i + 1] ELSE "undefined"

\* String(s[i]): the argument parseInt sees
CharAtString(s, i) == IF i + 1 <= Len(s) THEN <<s[i + 1]>> ELSE UndefinedString

\* s.substring(from) with a 0-based index
SubstringFrom(s, from) == IF from >= Len(s) THEN <<>> ELSE SubSeq(s, from + 1, Len(s))

\* value of the digits s[from .. to]
RECURSIVE DigitsValue(_, _, _)
DigitsValue(s, from, to) ==
    IF to < from THEN 0
    ELSE 10 * DigitsValue(s, from, to - 1) + DigitValue(s[to])

\* first index >= i of s that holds no character of the class, or Len(s) + 1
RECURSIVE SkipWhiteSpace(_, _)
SkipWhiteSpace(s, i) ==
    IF i <= Len(s) /\ IsWhiteSpace(s[i]) THEN SkipWhiteSpace(s, i + 1) ELSE i

RECURSIVE SkipDigits(_, _)
SkipDigits(s, i) ==
    IF i <= Len(s) /\ IsDigit(s[i]) THEN SkipDigits(s, i + 1) ELSE i

\* parseInt(s, 10): leading white space, an optional sign, then the longest
\* run of digits; NaN when there is no digit
parseInt(s) ==
    LET a == SkipWhiteSpace(s, 1)
        signed == a <= Len(s) /\ s[a] \in {"+", "-"}
        b == IF signed THEN a + 1 ELSE a
        e == SkipDigits(s, b)
    IN  IF e = b THEN NaN
        ELSE IF signed /\ s[a] = "-" THEN Num(-DigitsValue(s, b, e - 1))
        ELSE Num(DigitsValue(s, b, e - 1))

\* parts.join(sep)
RECURSIVE Join(_, _)
Join(parts, sep) ==
    IF Len(parts) = 0 THEN <<>>
    ELSE IF Len(parts) = 1 THEN parts[1]
    ELSE parts[1] \o sep \o Join(Tail(parts), sep)

\* index of the first character of s at or after from that is in the set cs,
\* or Len(s) + 1
FirstIn(s, cs, from) ==
    IF \E i \in from..Len(s) : s[i] \in cs
    THEN CHOOSE i \in from..Len(s) : s[i] \in cs /\ \A j \in from..(i - 1) : s[j] \notin cs
    ELSE Len(s) + 1

\* s.split(c) for a one-character separator c
RECURSIVE SplitFrom(_, _, _)
SplitFrom(s, c, from) ==
    LET i == FirstIn(s, {c}, from)
    IN  IF i > Len(s) THEN <<SubSeq(s, from, Len(s))>>
        ELSE <<SubSeq(s, from, i - 1)>> \o SplitFrom(s, c, i + 1)

Split(s, c) == SplitFrom(s, c, 1)

\* arr.reduce((a, b) => a + b, 0)
RECURSIVE SumSeq(_)
SumSeq(arr) == IF Len(arr) = 0 THEN 0 ELSE arr[1] + SumSeq(Tail(arr))

\* MathRound with a half rounded down
MathRoundHalfDown(num, den) == (2 * num + den - 1) \div (2 * den)

\* Math.round(num / den) for den > 0: floor(num / den + 1/2)
MathRound(num, den) == (2 * num + den) \div (2 * den)

(***************************************************************************)
(* services/dnaGenerator.ts                                                *)
(***************************************************************************)
lncTraits == <<
    <<"B", "C">>, <<"R", "O">>, <<"L", "T">>, <<"F", "I">>, <<"S", "X">>,
    <<"P", "M">>, <<"D", "U">>, <<"G", "H">>, <<"Y", "W">>, <<"E", "A">>,
    <<"N", "V">>, <<"K", "Q">>, <<"Z", "B">>, <<"O", "P">>, <<"C", "H">>,
    <<"R", "L">>, <<"A", "S">>, <<"D", "A">>, <<"A", "H">>, <<"I", "C">> >>

gneTraits == <<
    "H", "C", "K", "G", "L", "J", "M", "F", "E", "B",
    "U", "S", "I", "R", "T", "A", "D", "V", "Y", "X" >>

\* the n-th value (n = 0, 1, ...) Math.random() returns from generator state g,
\* as the numerator of a fraction over RandDen
MathRandom(g, n) == (g.x + n * g.w) % RandDen

\* getRandomInt without "+ min"
getRandomIntNoOffset(r, min, max) == (r * (max - min + 1)) \div RandDen

\* Math.floor(Math.random() * (max - min + 1)) + min, for Math.random() = r / RandDen
getRandomInt(r, min, max) == ((r * (max - min + 1)) \div RandDen) + min

\* the three draws of the i-th iteration of the first loop
LncDraw(g, i) ==
    [ chosenTrait |-> lncTraits[i][getRandomInt(MathRandom(g, 3 * (i - 1)), 0, 1) + 1],
      lncScore    |-> getRandomInt(MathRandom(g, 3 * (i - 1) + 1), 1, 9),
      intensity   |-> getRandomInt(MathRandom(g, 3 * (i - 1) + 2), 1, 5) ]

\* the draw of the i-th iteration of the second loop
GneDraw(g, i) ==
    [ trait    |-> gneTraits[i],
      gneScore |-> getRandomInt(MathRandom(g, 3 * Len(lncTraits) + (i - 1)), 1, 9) ]

\* LncEntry with the intensity written first and the score last
LncEntryIntensityFirst(d) ==
    NumberToString(d.intensity) \o <<d.chosenTrait>> \o NumberToString(d.lncScore)

\* `${lncScore}${chosenTrait}${intensity}`
LncEntry(d) == NumberToString(d.lncScore) \o <<d.chosenTrait>> \o NumberToString(d.intensity)

\* `${trait}${gneScore}`
GneEntry(d) == <<d.trait>> \o NumberToString(d.gneScore)

\* the rounded mean of a list of scores
Average(scores) == MathRound(SumSeq(scores), Len(scores))

\* the locals of generatePersonalityDna when it returns
GenerateLocals(g) ==
    LET lnc == [i \in 1..Len(lncTraits) |-> LncDraw(g, i)]
        gne == [i \in 1..Len(gneTraits) |-> GneDraw(g, i)]
        lncScores == [i \in 1..Len(lncTraits) |-> lnc[i].lncScore]
        gneScores == [i \in 1..Len(gneTraits) |-> gne[i].gneScore]
    IN  [ lnc        |-> lnc,
          gne        |-> gne,
          lncDna     |-> [i \in 1..Len(lncTraits) |-> LncEntry(lnc[i])],
          gneDna     |-> [i \in 1..Len(gneTraits) |-> GneEntry(gne[i])],
          lncScores  |-> lncScores,
          gneScores  |-> gneScores,
          lncAverage |-> Average(lncScores),
          gneAverage |-> Average(gneScores) ]

\* `(${lncAverage}/${gneAverage}) ${lncDna.join(',')} - ${gneDna.join(',')}`
FormatDna(l) ==
    <<"(">> \o NumberToString(l.lncAverage) \o <<"/">> \o NumberToString(l.gneAverage)
        \o <<")", " ">> \o Join(l.lncDna, <<",">>)
        \o <<" ", "-", " ">> \o Join(l.gneDna, <<",">>)

generatePersonalityDna(g) == FormatDna(GenerateLocals(g))

\* the generator after the 80 draws of one call
RngAfterGenerate(g) ==
    [g EXCEPT !.x = MathRandom(g, 3 * Len(lncTraits) + Len(gneTraits))]

(***************************************************************************)
(* services/dnaDecoder.ts                                                  *)
(***************************************************************************)
lncTraitMap == <<
    [name1 |-> "Brave",         name2 |-> "Cowardly"],
    [name1 |-> "Reserved",      name2 |-> "Outspoken"],
    [name1 |-> "Reckless",      name2 |-> "Cautious"],
    [name1 |-> "Confident",     name2 |-> "Insecure"],
    [name1 |-> "Stoic",         name2 |-> "Expressive"],
    [name1 |-> "Patient",       name2 |-> "Impatient"],
    [name1 |-> "Methodical",    name2 |-> "Impulsive"],
    [name1 |-> "Organized",     name2 |-> "Chaotic"],
    [name1 |-> "Suspicious",    name2 |-> "Trusting"],
    [name1 |-> "Serious",       name2 |-> "Playful"],
    [name1 |-> "Introverted",   name2 |-> "Extroverted"],
    [name1 |-> "Competitive",   name2 |-> "Harmonious"],
    [name1 |-> "Tactful",       name2 |-> "Blunt"],
    [name1 |-> "Optimistic",    name2 |-> "Pessimistic"],
    [name1 |-> "Calm",          name2 |-> "Hot-headed"],
    [name1 |-> "Perfectionist", name2 |-> "Laid-Back"],
    [name1 |-> "Authoritative", name2 |-> "Submissive"],
    [name1 |-> "Driven",        name2 |-> "Apathetic"],
    [name1 |-> "Adventurous",   name2 |-> "Hesitant"],
    [name1 |-> "Diplomatic",    name2 |-> "Confrontational"] >>

\* lncTraitKeys with the pairs of positions 13 and 14 exchanged
lncTraitKeysDrifted == <<
    <<"B", "C">>, <<"R", "O">>, <<"L", "T">>, <<"F", "I">>, <<"S", "X">>,
    <<"P", "M">>, <<"D", "U">>, <<"G", "H">>, <<"Y", "W">>, <<"E", "A">>,
    <<"N", "V">>, <<"K", "Q">>, <<"O", "P">>, <<"Z", "B">>, <<"C", "H">>,
    <<"R", "L">>, <<"A", "S">>, <<"D", "A">>, <<"A", "H">>, <<"I", "C">> >>

lncTraitKeys == <<
    <<"B", "C">>, <<"R", "O">>, <<"L", "T">>, <<"F", "I">>, <<"S", "X">>,
    <<"P", "M">>, <<"D", "U">>, <<"G", "H">>, <<"Y", "W">>, <<"E", "A">>,
    <<"N", "V">>, <<"K", "Q">>, <<"Z", "B">>, <<"O", "P">>, <<"C", "H">>,
    <<"R", "L">>, <<"A", "S">>, <<"D", "A">>, <<"A", "H">>, <<"I", "C">> >>

gneTraitMap ==
    [ H |-> "Honest", C |-> "Compassionate", K |-> "Kind", G |-> "Generous", L |-> "Loyal",
      J |-> "Just", M |-> "Merciful", F |-> "Forgiving", E |-> "Empathetic", B |-> "Benevolent",
      U |-> "Humble", S |-> "Selfless", I |-> "Integrity", R |-> "Responsible", T |-> "Tolerant",
      A |-> "Fair", D |-> "Devoted", V |-> "Charitable", Y |-> "Accountable", X |-> "Virtuous" ]

getLncAlignment(score) ==
    IF NumGe(score, 7) THEN "Lawful"
    ELSE IF NumGe(score, 4) THEN "Neutral"
    ELSE "Chaotic"

getGneAlignment(score) ==
    IF NumGe(score, 7) THEN "Good"
    ELSE IF NumGe(score, 4) THEN "Neutral"
    ELSE "Evil"

\* getGneStrength with 7 in the middle bucket
getGneStrengthAbove7(score) ==
    IF NumGe(score, 8) THEN "Strong"
    ELSE IF NumGe(score, 4) THEN "Moderate"
    ELSE "Weak/Opposite"

getGneStrength(score) ==
    IF NumGe(score, 7) THEN "Strong"
    ELSE IF NumGe(score, 4) THEN "Moderate"
    ELSE "Weak/Opposite"

\* how a piece of code completes: it returns a value or throws
Return(v) == [kind |-> "return", value |-> v]
Throw(e) == [kind |-> "throw", value |-> e]
Null == [tag |-> "null"]

\* s holds " - " at index k
IsSeparatorAt(s, k) == k + 2 <= Len(s) /\ s[k] = " " /\ s[k + 1] = "-" /\ s[k + 2] = " "

\* LineEnd for a '.' that also matches line terminators
LineEndDotAll(s, r) == Len(s)

\* index of the last character of the line that index r is on (r - 1 if a line
\* terminator is at r, or r is past the end)
LineEnd(s, r) == FirstIn(s, {"\n", "\r"}, r) - 1

\* the match of /\((\d+)\/(\d+)\) (.*) - (.*)/ that starts at index p, if any:
\* both (.*) are greedy and stay on one line, so the first one ends at the last
\* " - " of the line and the second one runs to the end of the line
DnaMatchAt(s, p) ==
    LET a1 == p + 1
        a2 == SkipDigits(s, a1)
        b1 == a2 + 1
        b2 == SkipDigits(s, b1)
        r  == b2 + 2
        e  == LineEnd(s, r)
        seps == {k \in r..(e - 2) : IsSeparatorAt(s, k)}
        k  == CHOOSE m \in seps : \A n \in seps : n <= m
        ok == /\ p <= Len(s) /\ s[p] = "("
              /\ a2 > a1
              /\ a2 <= Len(s) /\ s[a2] = "/"
              /\ b2 > b1
              /\ b2 + 1 <= Len(s) /\ s[b2] = ")" /\ s[b2 + 1] = " "
              /\ seps # {}
    IN  IF ok
        THEN [ ok |-> TRUE,
               lncAvg  |-> SubSeq(s, a1, a2 - 1),
               gneAvg  |-> SubSeq(s, b1, b2 - 1),
               lncPart |-> SubSeq(s, r, k - 1),
               gnePart |-> SubSeq(s, k + 3, e) ]
        ELSE [ok |-> FALSE]

\* dna.match(/\((\d+)\/(\d+)\) (.*) - (.*)/): the leftmost match, or null
DnaMatch(s) ==
    LET starts == {p \in 1..Len(s) : s[p] = "(" /\ DnaMatchAt(s, p).ok}
    IN  IF starts = {} THEN [ok |-> FALSE]
        ELSE DnaMatchAt(s, CHOOSE p \in starts : \A q \in starts : p <= q)

\* DecodePaired with the name looked up by letter alone: the side of the first
\* pair of the table that has the letter
DecodePairedByLetter(trait, index) ==
    IF index >= Len(lncTraitKeys) \/ index >= Len(lncTraitMap)
    THEN Throw("TypeError")
    ELSE LET score == parseInt(CharAtString(trait, 0))
             key == CharAt(trait, 1)
             intensity == parseInt(CharAtString(trait, 2))
             name1 == lncTraitMap[index + 1].name1
             name2 == lncTraitMap[index + 1].name2
             holders == {k \in 1..Len(lncTraitKeys) : key \in {lncTraitKeys[k][1], lncTraitKeys[k][2]}}
             k == CHOOSE m \in holders : \A n \in holders : m <= n
             traitName == IF holders = {} THEN name2
                          ELSE IF key = lncTraitKeys[k][1] THEN lncTraitMap[k].name1
                          ELSE lncTraitMap[k].name2
         IN  Return([ name      |-> traitName,
                      score     |-> score,
                      intensity |-> intensity,
                      influence |-> getLncAlignment(score),
                      pair      |-> <<name1, " / ", name2>> ])

\* DecodePaired that rejects an entry whose score is not a digit
DecodePairedValidated(trait, index) ==
    IF index >= Len(lncTraitKeys) \/ index >= Len(lncTraitMap)
           \/ Len(trait) = 0 \/ ~IsDigit(trait[1])
    THEN Throw("TypeError")
    ELSE LET score == parseInt(CharAtString(trait, 0))
             key == CharAt(trait, 1)
             intensity == parseInt(CharAtString(trait, 2))
             key1 == lncTraitKeys[index + 1][1]
             name1 == lncTraitMap[index + 1].name1
             name2 == lncTraitMap[index + 1].name2
         IN  Return([ name      |-> IF key = key1 THEN name1 ELSE name2,
                      score     |-> score,
                      intensity |-> intensity,
                      influence |-> getLncAlignment(score),
                      pair      |-> <<name1, " / ", name2>> ])

\* the callback of lncTraitsRaw.map, for the 0-based index
DecodePaired(trait, index) ==
    IF index >= Len(lncTraitKeys) \/ index >= Len(lncTraitMap)
    THEN Throw("TypeError")
    ELSE LET score == parseInt(CharAtString(trait, 0))
             key == CharAt(trait, 1)
             intensity == parseInt(CharAtString(trait, 2))
             key1 == lncTraitKeys[index + 1][1]
             name1 == lncTraitMap[index + 1].name1
             name2 == lncTraitMap[index + 1].name2
             traitName == IF key = key1 THEN name1 ELSE name2
         IN  Return([ name      |-> traitName,
                      score     |-> score,
                      intensity |-> intensity,
                      influence |-> getLncAlignment(score),
                      pair      |-> <<name1, " / ", name2>> ])

\* the callback of gneTraitsRaw.map
DecodeUnpaired(trait) ==
    LET key == CharAt(trait, 0)
        score == parseInt(SubstringFrom(trait, 1))
    IN  [ name     |-> IF key \in DOMAIN gneTraitMap THEN gneTraitMap[key] ELSE "Unknown",
          score    |-> score,
          strength |-> getGneStrength(score) ]

\* the body of the try block of decodeDna
DecodeBody(dna) ==
    LET match == DnaMatch(dna)
    IN  IF ~match.ok THEN Return(Null)
        ELSE
          LET lncAverage == parseInt(match.lncAvg)
              gneAverage == parseInt(match.gneAvg)
              lncTraitsRaw == Split(match.lncPart, ",")
              gneTraitsRaw == Split(match.gnePart, ",")
              paired == [i \in 1..Len(lncTraitsRaw) |-> DecodePaired(lncTraitsRaw[i], i - 1)]
          IN  IF \E i \in 1..Len(paired) : paired[i].kind = "throw"
              THEN Throw("TypeError")
              ELSE Return(
                  [ tag |-> "DecodedDna",
                    alignment |-> [ lnc |-> getLncAlignment(lncAverage),
                                    gne |-> getGneAlignment(gneAverage),
                                    lncScore |-> lncAverage,
                                    gneScore |-> gneAverage ],
                    pairedTraits |-> [i \in 1..Len(paired) |-> paired[i].value],
                    unpairedTraits |->
                        [i \in 1..Len(gneTraitsRaw) |-> DecodeUnpaired(gneTraitsRaw[i])] ])

\* decodeDna without the catch clause
decodeDnaNoCatch(dna) == DecodeBody(dna)

\* try { ... } catch (error) { console.error(...); return null; }
decodeDna(dna) ==
    LET body == DecodeBody(dna)
    IN  IF body.kind = "throw" THEN Return(Null) ELSE body

(***************************************************************************)
(* The strings a caller passes to decodeDna: the generator's output, that  *)
(* output damaged in one place, and some short hand-written strings.       *)
(***************************************************************************)
\* s.indexOf(c) + 1: index of the first c in s, or 0
IndexOf(s, c) == LET i == FirstIn(s, {c}, 1) IN IF i > Len(s) THEN 0 ELSE i

InsertAt(s, i, t) == SubSeq(s, 1, i - 1) \o t \o SubSeq(s, i, Len(s))

RemoveAt(s, i, n) == SubSeq(s, 1, i - 1) \o SubSeq(s, i + n, Len(s))

ReplaceAt(s, i, c) == [s EXCEPT ![i] = c]

ToyDna == <<"(", "5", "/", "5", ")", " ", "5", "B", "3", ",", "4", "O", "2", " ", "-", " ", "H", "5", ",", "C", "5">>
EmptyPairedDna == <<"(", "5", "/", "5", ")", " ", " ", "-", " ", "H", "5">>
SignedScoresDna == <<"(", "7", "/", "3", ")", " ", "7", "C", "1", " ", "-", " ", "H", "-", "3", ",", "C", "+", "8", ",", "K", " ", "7", ",", "G", ",", "9", "9">>
LongAveragesDna == <<"(", "1", "2", "/", "3", "4", "5", ")", " ", "9", "Z", "5", ",", "3", "B", "1", " ", "-", " ", "X", "9">>
NoSeparatorDna == <<"(", "5", "/", "5", ")", " ", "5", "B", "3", ",", "4", "O", "2", " ", "H", "5", ",", "C", "5">>

InputKinds ==
    { "generated", "toy", "extraPaired", "missingPaired", "noParen", "noDash",
      "letterScore", "empty", "prefixed", "brokenLine", "letterAverage",
      "secondLine", "twoSeparators", "extraUnpaired", "emptyPaired",
      "signedScores", "longAverages", "noSeparator" }

\* the argument of kind k, built around the generated string g
DecodeInput(g, k) ==
    LET first == IndexOf(g, " ") + 1     \* index of the first paired entry
        dash == IndexOf(g, "-")          \* index of the separator's dash
    IN  CASE k = "generated"     -> g
          [] k = "toy"           -> ToyDna
          [] k = "extraPaired"   -> InsertAt(g, first, <<"5", "B", "3", ",">>)
          [] k = "missingPaired" -> RemoveAt(g, first, 4)
          [] k = "noParen"       -> Tail(g)
          [] k = "noDash"        -> ReplaceAt(g, dash, ",")
          [] k = "letterScore"   -> ReplaceAt(g, first, "x")
          [] k = "empty"         -> <<>>
          [] k = "prefixed"      -> <<"D", "N", "A", ":", " ">> \o g
          [] k = "brokenLine"    -> InsertAt(g, dash - 1, <<"\n">>)
          [] k = "letterAverage" -> ReplaceAt(g, 2, "a")
          [] k = "secondLine"    -> g \o <<"\n", "(", "1", "/", "1", ")", " ", "z">>
          [] k = "twoSeparators" -> g \o <<" ", "-", " ", "Q", "9">>
          [] k = "extraUnpaired" -> g \o <<",", "Q", "9">>
          [] k = "emptyPaired"   -> EmptyPairedDna
          [] k = "signedScores"  -> SignedScoresDna
          [] k = "longAverages"  -> LongAveragesDna
          [] k = "noSeparator"   -> NoSeparatorDna

(***************************************************************************)
(* components/NpcCard.tsx: the parsedProfile memo of NpcCard.               *)
(***************************************************************************)
UpperCase == <<"A", "B", "C", "D", "E", "F", "G", "H", "I", "J", "K", "L", "M",
               "N", "O", "P", "Q", "R", "S", "T", "U", "V", "W", "X", "Y", "Z">>
LowerCase == <<"a", "b", "c", "d", "e", "f", "g", "h", "i", "j", "k", "l", "m",
               "n", "o", "p", "q", "r", "s", "t", "u", "v", "w", "x", "y", "z">>

\* c.toLowerCase() and c.toUpperCase() for one character
ToLowerChar(c) ==
    IF \E i \in 1..26 : UpperCase[i] = c
    THEN LowerCase[CHOOSE i \in 1..26 : UpperCase[i] = c]
    ELSE c

ToUpperChar(c) ==
    IF \E i \in 1..26 : LowerCase[i] = c
    THEN UpperCase[CHOOSE i \in 1..26 : LowerCase[i] = c]
    ELSE c

ToLowerCase(s) == [i \in 1..Len(s) |-> ToLowerChar(s[i])]
ToUpperCase(s) == [i \in 1..Len(s) |-> ToUpperChar(s[i])]

\* two characters are equal under the 'i' flag of a regular expression
EqualIgnoreCase(a, b) == ToUpperChar(a) = ToUpperChar(b)

\* a JavaScript value that is a string or undefined
Str(s) == [undef |-> FALSE, str |-> s]
Undefined == [undef |-> TRUE, str |-> <<>>]

\* s.substring(a, b) with 0-based indices: both are clamped to 0 .. s.length and
\* exchanged if a > b
Clamp(s, i) == IF i < 0 THEN 0 ELSE IF i > Len(s) THEN Len(s) ELSE i
Substring(s, a, b) ==
    LET x == Clamp(s, a)
        y == Clamp(s, b)
    IN  IF x <= y THEN SubSeq(s, x + 1, y) ELSE SubSeq(s, y + 1, x)

\* the least and the greatest element of a non-empty set of integers
Min(S) == CHOOSE i \in S : \A j \in S : i <= j
Max(S) == CHOOSE i \in S : \A j \in S : j <= i

\* s.trim(): kept holds the indices of the characters that are not white space
TrimKept(s, kept) == IF kept = {} THEN <<>> ELSE SubSeq(s, Min(kept), Max(kept))
Trim(s) == TrimKept(s, {i \in 1..Len(s) : ~IsWhiteSpace(s[i])})

\* s holds the string t at index q
HasAt(s, q, t) == q >= 1 /\ q + Len(t) - 1 <= Len(s) /\ \A k \in 1..Len(t) : s[q + k - 1] = t[k]

\* s holds the string t at index q, whatever the case of the letters
HasAtIgnoreCase(s, q, t) ==
    q >= 1 /\ q + Len(t) - 1 <= Len(s) /\ \A k \in 1..Len(t) : EqualIgnoreCase(s[q + k - 1], t[k])

\* first index >= i of s that does not hold a '#', or Len(s) + 1
RECURSIVE SkipHashes(_, _)
SkipHashes(s, i) == IF i <= Len(s) /\ s[i] = "#" THEN SkipHashes(s, i + 1) ELSE i

\* the 11 section titles, in the order of allHeaders
allHeaders == <<
    <<"A", "p", "p", "e", "a", "r", "a", "n", "c", "e", " ", "&", " ", "P", "r", "e",
      "s", "e", "n", "c", "e">>,
    <<"P", "e", "r", "s", "o", "n", "a", "l", "i", "t", "y", " ", "&", " ", "I", "n",
      "t", "e", "r", "n", "a", "l", " ", "C", "o", "n", "f", "l", "i", "c", "t">>,
    <<"B", "a", "c", "k", "s", "t", "o", "r", "y">>,
    <<"B", "e", "h", "a", "v", "i", "o", "r", "a", "l", " ", "M", "o", "d", "e", "l",
      " ", "(", "B", "D", "I", ")">>,
    <<"S", "t", "r", "e", "n", "g", "t", "h", "s", " ", "&", " ", "W", "e", "a", "k",
      "n", "e", "s", "s", "e", "s">>,
    <<"S", "e", "c", "r", "e", "t", "s">>,
    <<"S", "i", "g", "n", "i", "f", "i", "c", "a", "n", "t", " ", "R", "e", "l", "a",
      "t", "i", "o", "n", "s", "h", "i", "p", "s">>,
    <<"N", "o", "t", "a", "b", "l", "e", " ", "P", "o", "s", "s", "e", "s", "s", "i",
      "o", "n", "s">>,
    <<"R", "o", "l", "e", "p", "l", "a", "y", "i", "n", "g", " ", "C", "u", "e", "s">>,
    <<"E", "x", "a", "m", "p", "l", "e", " ", "I", "n", "t", "e", "r", "a", "c", "t",
      "i", "o", "n">>,
    <<"A", "d", "v", "e", "n", "t", "u", "r", "e", " ", "H", "o", "o", "k", "s">> >>

ProfileHeader ==
    <<"P", "r", "o", "f", "i", "l", "e">>

\* the property names of sectionMap that step 3 reads, and the fields of the
\* result they are assigned to, in the order of the assignments
sectionKeys == <<
    <<"a", "p", "p", "e", "a", "r", "a", "n", "c", "e", "_", "p", "r", "e", "s", "e",
      "n", "c", "e">>,
    <<"p", "e", "r", "s", "o", "n", "a", "l", "i", "t", "y", "_", "i", "n", "t", "e",
      "r", "n", "a", "l", "_", "c", "o", "n", "f", "l", "i", "c", "t">>,
    <<"b", "a", "c", "k", "s", "t", "o", "r", "y">>,
    <<"b", "e", "h", "a", "v", "i", "o", "r", "a", "l", "_", "m", "o", "d", "e", "l",
      "_", "b", "d", "i">>,
    <<"s", "t", "r", "e", "n", "g", "t", "h", "s", "_", "w", "e", "a", "k", "n", "e",
      "s", "s", "e", "s">>,
    <<"s", "e", "c", "r", "e", "t", "s">>,
    <<"s", "i", "g", "n", "i", "f", "i", "c", "a", "n", "t", "_", "r", "e", "l", "a",
      "t", "i", "o", "n", "s", "h", "i", "p", "s">>,
    <<"n", "o", "t", "a", "b", "l", "e", "_", "p", "o", "s", "s", "e", "s", "s", "i",
      "o", "n", "s">>,
    <<"r", "o", "l", "e", "p", "l", "a", "y", "i", "n", "g", "_", "c", "u", "e", "s">>,
    <<"e", "x", "a", "m", "p", "l", "e", "_", "i", "n", "t", "e", "r", "a", "c", "t",
      "i", "o", "n">>,
    <<"a", "d", "v", "e", "n", "t", "u", "r", "e", "_", "h", "o", "o", "k", "s">> >>

sectionFields == <<"appearance", "personality", "backstory", "bdi", "strengthsWeaknesses", "secrets", "relationships", "possessions", "roleplayingCues", "interaction", "hooks">>

\* headerText.replace(/\s&\s/g, ' ')
RECURSIVE ReplaceAmpersand(_, _)
ReplaceAmpersand(s, i) ==
    IF i > Len(s) THEN <<>>
    ELSE IF i + 2 <= Len(s) /\ IsWhiteSpace(s[i]) /\ s[i + 1] = "&" /\ IsWhiteSpace(s[i + 2])
         THEN <<" ">> \o ReplaceAmpersand(s, i + 3)
         ELSE <<s[i]>> \o ReplaceAmpersand(s, i + 1)

\* s.replace(/[\s-]+/g, '_')
IsSpaceOrDash(c) == IsWhiteSpace(c) \/ c = "-"
RECURSIVE ReplaceSpaceRuns(_, _)
ReplaceSpaceRuns(s, i) ==
    IF i > Len(s) THEN <<>>
    ELSE IF IsSpaceOrDash(s[i])
         THEN (IF i > 1 /\ IsSpaceOrDash(s[i - 1]) THEN <<>> ELSE <<"_">>)
                  \o ReplaceSpaceRuns(s, i + 1)
         ELSE <<s[i]>> \o ReplaceSpaceRuns(s, i + 1)

\* s with the characters of the set cs removed: s.replace(/[()]/g, '')
RECURSIVE RemoveChars(_, _, _)
RemoveChars(s, cs, i) ==
    IF i > Len(s) THEN <<>>
    ELSE (IF s[i] \in cs THEN <<>> ELSE <<s[i]>>) \o RemoveChars(s, cs, i + 1)

\* a key that keeps the parentheses of the header
HeaderKeyKeepParens(headerText) ==
    ReplaceSpaceRuns(ReplaceAmpersand(ToLowerCase(headerText), 1), 1)

\* the key of a header in sectionMap
HeaderKey(headerText) ==
    RemoveChars(ReplaceSpaceRuns(ReplaceAmpersand(ToLowerCase(headerText), 1), 1), {"(", ")"}, 1)

\* the match of /(^|\n)\s*(?:#+\s*)?(?:\*\*)?<headerText>(?:\*\*)?/i that starts at
\* index p of text, if any. The index after an optional '**' at index q:
SkipBold(text, q) == IF HasAt(text, q, <<"*", "*">>) THEN q + 2 ELSE q

\* the index after (?:#+\s*)? at index q1, where the '#'s at q1 end before q2
SkipHeadingTo(text, q1, q2) == IF q2 > q1 THEN SkipWhiteSpace(text, q2) ELSE q1
SkipHeading(text, q1) == SkipHeadingTo(text, q1, SkipHashes(text, q1))

\* the index after \s*(?:#+\s*)?(?:\*\*)? at index q0
TitleStart(text, q0) == SkipBold(text, SkipHeading(text, SkipWhiteSpace(text, q0)))

\* the match that starts at p and has its title at q4: index is 0-based as in
\* JavaScript
HeaderMatchFrom(text, p, headerText, q4) ==
    IF (p = 1 \/ (p <= Len(text) /\ text[p] = "\n")) /\ HasAtIgnoreCase(text, q4, headerText)
    THEN [ok |-> TRUE, index |-> p - 1, length |-> SkipBold(text, q4 + Len(headerText)) - p]
    ELSE [ok |-> FALSE]

HeaderMatchAt(text, p, headerText) ==
    HeaderMatchFrom(text, p, headerText, TitleStart(text, IF p = 1 THEN 1 ELSE p + 1))

\* the rightmost match instead
HeaderMatchLast(text, headerText, starts) ==
    IF starts = {} THEN [ok |-> FALSE] ELSE HeaderMatchAt(text, Max(starts), headerText)
\* text.match(regex) for the regular expression of headerText: the leftmost match
HeaderMatchFirst(text, headerText, starts) ==
    IF starts = {} THEN [ok |-> FALSE] ELSE HeaderMatchAt(text, Min(starts), headerText)

HeaderMatch(text, headerText) ==
    HeaderMatchFirst(text, headerText,
        {p \in 1..Len(text) : (p = 1 \/ text[p] = "\n") /\ HeaderMatchAt(text, p, headerText).ok})

\* the loop over ["Profile", ...allHeaders] that finds the first section
FirstSectionIndex(profileText) ==
    Min({m.index : m \in {n \in {HeaderMatch(profileText, h) :
                                    h \in {ProfileHeader} \cup {allHeaders[k] : k \in 1..Len(allHeaders)}} :
                             n.ok}}
            \cup {Len(profileText)})

\* headerBlock.match(/^(?:#+\s*)?\*\*(.*?)\*\*/)?.[1]: the index after (?:#+\s*)?
\* when the '#'s at the start end before q1
NameStart(headerBlock, q1) == IF q1 > 1 THEN SkipWhiteSpace(headerBlock, q1) ELSE 1

\* (.*?) from index s to the '**' at index j: '.' matches no line terminator
NameCaptureTo(headerBlock, s, j) ==
    IF \A i \in s..(j - 1) : ~IsLineTerminator(headerBlock[i])
    THEN Str(SubSeq(headerBlock, s, j - 1))
    ELSE Undefined

NameCaptureIn(headerBlock, s, closers) ==
    IF closers = {} THEN Undefined ELSE NameCaptureTo(headerBlock, s, Min(closers))

NameCaptureFrom(headerBlock, q2) ==
    IF HasAt(headerBlock, q2, <<"*", "*">>)
    THEN NameCaptureIn(headerBlock, q2 + 2,
             {j \in (q2 + 2)..Len(headerBlock) : HasAt(headerBlock, j, <<"*", "*">>)})
    ELSE Undefined

NameCapture(headerBlock) ==
    NameCaptureFrom(headerBlock, NameStart(headerBlock, SkipHashes(headerBlock, 1)))

RoleLabel ==
    <<"*", "*", "R", "o", "l", "e", ":", "*", "*", " ">>
AlignmentLabel ==
    <<"*", "*", "A", "l", "i", "g", "n", "m", "e", "n", "t", ":", "*", "*", " ">>

\* headerBlock.match(/\*\*Role:\*\* (.*?)\n/)?.[1], for the label "**Role:** ":
\* the index where (.*?) stops for the label at index p
LabelEnd(headerBlock, label, p) == FirstIn(headerBlock, {"\n", "\r"}, p + Len(label))

LabelCaptureAt(headerBlock, label, p) ==
    Str(SubSeq(headerBlock, p + Len(label), LabelEnd(headerBlock, label, p) - 1))

LabelCaptureFirst(headerBlock, label, starts) ==
    IF starts = {} THEN Undefined ELSE LabelCaptureAt(headerBlock, label, Min(starts))

LabelCapture(headerBlock, label) ==
    LabelCaptureFirst(headerBlock, label,
        {p \in 1..Len(headerBlock) :
            /\ HasAt(headerBlock, p, label)
            /\ LabelEnd(headerBlock, label, p) <= Len(headerBlock)
            /\ headerBlock[LabelEnd(headerBlock, label, p)] = "\n"})

\* the class [ -:|] of tableRegex: the characters from ' ' to ':', and '|'
IsRuleChar(c) ==
    c \in { " ", "!", "\"", "#", "$", "%", "&", "'", "(", ")", "*", "+", ",", "-", ".", "/",
            "0", "1", "2", "3", "4", "5", "6", "7", "8", "9", ":", "|" }

\* the index where the run of [ -:|] from index r ends
RuleEnd(s, r) == Min({i \in r..(Len(s) + 1) : i = Len(s) + 1 \/ ~IsRuleChar(s[i])})

\* the match of /\|.*?\n\|[ -:|]+?\n\|(.*?)\|(.*?)\|/s that starts at index p and
\* whose first line break is at index n1, if there is one: the two cells after
\* the line break at n2, the first of them ending at the bar at b1
TableRow(s, n2, b1) ==
    IF b1 <= Len(s) /\ FirstIn(s, {"|"}, b1 + 1) <= Len(s)
    THEN [ok |-> TRUE, cell1 |-> SubSeq(s, n2 + 2, b1 - 1),
          cell2 |-> SubSeq(s, b1 + 1, FirstIn(s, {"|"}, b1 + 1) - 1)]
    ELSE [ok |-> FALSE]

\* the rule line from index r to the line break at n2, and the row after it
TableRule(s, r, n2) ==
    IF n2 > r /\ HasAt(s, n2, <<"\n", "|">>)
    THEN TableRow(s, n2, FirstIn(s, {"|"}, n2 + 2))
    ELSE [ok |-> FALSE]

TableMatchAt(s, p, n1) ==
    IF s[p] = "|" /\ n1 > p /\ HasAt(s, n1, <<"\n", "|">>)
    THEN TableRule(s, n1 + 2, RuleEnd(s, n1 + 2))
    ELSE [ok |-> FALSE]

\* headerBlock.match(tableRegex): the leftmost match, with the lazy quantifiers
\* taking the nearest line breaks and bars
TableBreaks(s, p) == {n \in (p + 1)..Len(s) : s[n] = "\n" /\ TableMatchAt(s, p, n).ok}

TableMatchFirst(s, starts) ==
    IF starts = {} THEN [ok |-> FALSE]
    ELSE TableMatchAt(s, Min(starts), Min(TableBreaks(s, Min(starts))))

TableMatch(s) == TableMatchFirst(s, {p \in 1..Len(s) : s[p] = "|" /\ TableBreaks(s, p) # {}})

\* tableMatch[1]?.trim().replace(/[\[\]"]/g, '') || ''
CellText(cell) == RemoveChars(Trim(cell), {"[", "]", "\""}, 1)

\* value || fallback for a value that is a string or undefined
OrElse(value, fallback) == IF value.undef \/ Len(value.str) = 0 THEN fallback ELSE value.str

\* headerLocations: the headers found in contentBlock, sorted by index (the sort
\* is stable: equal indices stay in the order of allHeaders)
LocationRank(found, m) ==
    Cardinality({n \in found :
                    \/ n.match.index < m.match.index
                    \/ (n.match.index = m.match.index /\ n.pos < m.pos)}) + 1

LocationOf(m) ==
    [key |-> m.key, header |-> m.header, index |-> m.match.index, headerLength |-> m.match.length]

SortedLocations(found) ==
    [r \in 1..Cardinality(found) |-> LocationOf(CHOOSE n \in found : LocationRank(found, n) = r)]

\* locations that keep the headers that were not found, at index -1
UnfilteredMatch(match) == IF match.ok THEN match ELSE [ok |-> TRUE, index |-> -1, length |-> 0]
HeaderLocationsUnfiltered(contentBlock) ==
    SortedLocations({ [ pos    |-> k,
                        key    |-> HeaderKey(allHeaders[k]),
                        header |-> allHeaders[k],
                        match  |-> UnfilteredMatch(HeaderMatch(contentBlock, allHeaders[k])) ] :
                      k \in 1..Len(allHeaders) })

HeaderLocations(contentBlock) ==
    SortedLocations({m \in { [ pos    |-> k,
                               key    |-> HeaderKey(allHeaders[k]),
                               header |-> allHeaders[k],
                               match  |-> HeaderMatch(contentBlock, allHeaders[k]) ] :
                             k \in 1..Len(allHeaders) } :
                        m.match.ok})

\* the value the loop over headerLocations leaves in sectionMap[key]
SectionEnd(contentBlock, locations, i) ==
    IF i < Len(locations) THEN locations[i + 1].index ELSE Len(contentBlock)

SectionAt(contentBlock, locations, i) ==
    Str(Trim(Substring(contentBlock, locations[i].index + locations[i].headerLength,
                       SectionEnd(contentBlock, locations, i))))

SectionMapLast(contentBlock, locations, hits) ==
    IF hits = {} THEN Undefined ELSE SectionAt(contentBlock, locations, Max(hits))

SectionMapValue(contentBlock, locations, key) ==
    SectionMapLast(contentBlock, locations, {i \in 1..Len(locations) : locations[i].key = key})

\* the object parsed after step 3, from the matches of step 1 and the
\* locations of step 2
ParsedRecord(nameCapture, roleCapture, alignmentCapture, tableMatch, contentBlock, locations, npcName) ==
    [ tag                 |-> "content",
      name                |-> Str(OrElse(IF nameCapture.undef THEN Undefined
                                         ELSE Str(Trim(nameCapture.str)), npcName)),
      role                |-> Str(Trim(OrElse(roleCapture, <<>>))),
      alignment           |-> Str(Trim(OrElse(alignmentCapture, <<>>))),
      narrativeEssence    |-> Str(IF tableMatch.ok THEN CellText(tableMatch.cell1) ELSE <<>>),
      archetype           |-> Str(IF tableMatch.ok THEN CellText(tableMatch.cell2) ELSE <<>>),
      appearance          |-> SectionMapValue(contentBlock, locations, sectionKeys[1]),
      personality         |-> SectionMapValue(contentBlock, locations, sectionKeys[2]),
      backstory           |-> SectionMapValue(contentBlock, locations, sectionKeys[3]),
      bdi                 |-> SectionMapValue(contentBlock, locations, sectionKeys[4]),
      strengthsWeaknesses |-> SectionMapValue(contentBlock, locations, sectionKeys[5]),
      secrets             |-> SectionMapValue(contentBlock, locations, sectionKeys[6]),
      relationships       |-> SectionMapValue(contentBlock, locations, sectionKeys[7]),
      possessions         |-> SectionMapValue(contentBlock, locations, sectionKeys[8]),
      roleplayingCues     |-> SectionMapValue(contentBlock, locations, sectionKeys[9]),
      interaction         |-> SectionMapValue(contentBlock, locations, sectionKeys[10]),
      hooks               |-> SectionMapValue(contentBlock, locations, sectionKeys[11]) ]

\* steps 1 to 3 for the two blocks of the text
ParsedBlocks(headerBlock, contentBlock, locations, npcName) ==
    ParsedRecord(NameCapture(headerBlock), LabelCapture(headerBlock, RoleLabel),
                 LabelCapture(headerBlock, AlignmentLabel), TableMatch(headerBlock),
                 contentBlock, locations, npcName)

\* firstSectionIndex and headerLocations as the callback leaves them
ParseLocalsAt(profileText, firstSectionIndex) ==
    [ firstSectionIndex |-> firstSectionIndex,
      headerLocations |-> HeaderLocations(SubstringFrom(profileText, firstSectionIndex)) ]
ParseLocals(profileText) == ParseLocalsAt(profileText, FirstSectionIndex(profileText))
\* the callback returned before the try block
NoParseLocals == [firstSectionIndex |-> 0, headerLocations |-> <<>>]

\* the text is cut at firstSectionIndex into headerBlock and contentBlock
ParsedFrom(profileText, locals, npcName) ==
    ParsedBlocks(Trim(Substring(profileText, 0, locals.firstSectionIndex)),
                 SubstringFrom(profileText, locals.firstSectionIndex),
                 locals.headerLocations, npcName)

\* the result of the try block: the object parsed
ParsedContent(profileText, locals, npcName) == ParsedFrom(profileText, locals, npcName)

\* the fields of the object parsed
ParsedFields ==
    { "name", "role", "alignment", "narrativeEssence", "archetype", "appearance",
      "personality", "backstory", "bdi", "strengthsWeaknesses", "secrets",
      "relationships", "possessions", "roleplayingCues", "interaction", "hooks" }

\* Object.values(parsed).filter(v => typeof v === 'string' && v.length > 10).length < 3
TooLittleParsed(parsed) ==
    Cardinality({f \in ParsedFields : ~parsed[f].undef /\ Len(parsed[f].str) > 10}) < 3

\* the try block: no statement of it throws for a string
ParseBody(profileText, locals, npcName) ==
    Return(ParsedContent(profileText, locals, npcName))

\* a completion that also gives the error object when too little was parsed
ParseCompletionStrict(profileText, body) ==
    IF body.kind = "throw" \/ TooLittleParsed(body.value)
    THEN [tag |-> "error", raw |-> profileText]
    ELSE body.value

\* the catch block turns an exception of the body into the error object
ParseCompletion(profileText, body) ==
    IF body.kind = "throw" THEN [tag |-> "error", raw |-> profileText] ELSE body.value

\* the callback of the useMemo of parsedProfile
ComputeParsedProfile(profileText, locals, npcName) ==
    IF Len(profileText) = 0 THEN Null
    ELSE ParseCompletion(profileText, ParseBody(profileText, locals, npcName))

(***************************************************************************)
(* The profile texts NpcCard receives: a preamble followed by the 11       *)
(* sections in some order, each under a header line in one of the header   *)
(* styles.                                                                 *)
(***************************************************************************)
\* the order of the sections: position j holds title ((rotation + (j - 1) *
\* stride) mod 11) + 1, for rotation in 0 .. MaxRotation, stride in 1 .. MaxStride
MaxRotation == 2
MaxStride == 3
\* position j has header style ((j - 1 + shift) mod Len(HeaderStyles)) + 1, for
\* shift in 0 .. MaxStyleShift
MaxStyleShift == 2
\* a text holds the first count sections of its order, for count in
\* 0 .. MaxPartial, or all of them
MaxPartial == 2
\* The second word of a profession is one of the first MaxSecondWord words.
MaxSecondWord == 3
\* generatePersonalityDna is called by App in one of MaxAppSeed + 1 states of
\* Math.random.
MaxAppSeed == 1

HeaderStyles == <<
    [prefix |-> <<"#", "#", "#", " ", "*", "*">>, closing |-> <<"*", "*">>, trailer |-> <<>>, upper |-> FALSE],
    [prefix |-> <<"*", "*">>, closing |-> <<"*", "*">>, trailer |-> <<>>, upper |-> FALSE],
    [prefix |-> <<"#", "#", " ">>, closing |-> <<>>, trailer |-> <<>>, upper |-> FALSE],
    [prefix |-> <<>>, closing |-> <<>>, trailer |-> <<>>, upper |-> FALSE],
    [prefix |-> <<" ", " ", "#", " ">>, closing |-> <<>>, trailer |-> <<>>, upper |-> TRUE],
    [prefix |-> <<"*", "*">>, closing |-> <<>>, trailer |-> <<":", "*", "*">>, upper |-> FALSE] >>

PreambleKinds == {"none", "card", "intro"}
BodyKinds == {"bullets", "ruled", "echo"}

CardPreamble ==
    <<"#", "#", "#", " ", "*", "*", "A", "n", "n", " ", "L", "e", "e", "*", "*", "\n",
      "\n", "*", "*", "R", "o", "l", "e", ":", "*", "*", " ", "S", "p", "y", "\n", "*",
      "*", "A", "l", "i", "g", "n", "m", "e", "n", "t", ":", "*", "*", " ", "L", "a",
      "w", "f", "u", "l", " ", "G", "o", "o", "d", "\n", "\n", "|", " ", "*", "*", "E",
      "s", "s", "e", "n", "c", "e", "*", "*", " ", "|", " ", "*", "*", "T", "y", "p",
      "e", "*", "*", " ", "|", "\n", "|", " ", ":", "-", "-", " ", "|", " ", ":", "-",
      "-", " ", "|", "\n", "|", " ", "\"", "[", "A", " ", "f", "o", "x", "]", "\"",
      " ", "|", " ", "[", "R", "o", "g", "u", "e", "]", " ", "|", "\n", "\n", "-", "-",
      "-", "\n", "\n", "#", "#", "#", " ", "*", "*", "P", "r", "o", "f", "i", "l", "e",
      "*", "*", "\n">>

IntroPreamble ==
    <<"A", "n", " ", "o", "l", "d", " ", "s", "a", "i", "l", "o", "r", ".", "\n">>

Preamble(kind) ==
    CASE kind = "none" -> <<>>
      [] kind = "card" -> CardPreamble
      [] kind = "intro" -> IntroPreamble

\* the body of the section of title k
SectionBody(kind, k) ==
    CASE kind = "bullets" -> <<"\n", "\n", "*", " ", "t">> \o NumberToString(k) \o <<"\n", "\n">>
      [] kind = "ruled" ->
            <<" ", "x">> \o NumberToString(k)
                \o <<" ", "S", "e", "c", "r", "e", "t", "s", " ", "y", " ", "\n", "-", "-", "-", "\n", "\n">>
      [] kind = "echo" ->
            <<"n">> \o NumberToString(k) \o <<"\n", " ", "*", "*">> \o allHeaders[k]
                \o <<"*", "*", " ", "g", "o", "e", "s", " ", "o", "n", "\n">>

SectionOrder(rotation, stride) ==
    [j \in 1..Len(allHeaders) |-> ((rotation + (j - 1) * stride) % Len(allHeaders)) + 1]

StyleAt(parts, j) == HeaderStyles[((j - 1 + parts.shift) % Len(HeaderStyles)) + 1]

\* the header line of position j, without its line break
HeaderLine(parts, j) ==
    LET style == StyleAt(parts, j)
        title == allHeaders[parts.order[j]]
    IN  style.prefix \o (IF style.upper THEN ToUpperCase(title) ELSE title)
            \o style.closing \o style.trailer

\* the text of positions j .. 11
RECURSIVE SectionsFrom(_, _)
SectionsFrom(parts, j) ==
    IF j > Len(parts.order) THEN <<>>
    ELSE <<"\n">> \o HeaderLine(parts, j) \o <<"\n">>
             \o SectionBody(parts.body, parts.order[j]) \o SectionsFrom(parts, j + 1)

\* the text: with no preamble the first header starts the text
RenderProfile(parts) ==
    IF parts.preamble # "none" THEN Preamble(parts.preamble) \o SectionsFrom(parts, 1)
    ELSE IF parts.order = <<>> THEN <<>>
    ELSE Tail(SectionsFrom(parts, 1))

\* the numbers of sections a text holds
SectionCounts == (0..MaxPartial) \cup {Len(allHeaders)}

NoParts == [preamble |-> "none", order |-> <<>>, shift |-> 0, body |-> "bullets"]

DefaultNpcName ==
    <<"T", "o", "m", " ", "R", "e", "e", "d">>

(***************************************************************************)
(* The stat block of NpcCard: generateStats.                               *)
(***************************************************************************)
profBonus == 2

\* (score - 10) / 2, rounded down
getModifier(score) == (score - 10) \div 2

\* the modifier of a score with its sign
SignedString(mod) == IF mod >= 0 THEN <<"+">> \o NumberToString(mod) ELSE NumberToString(mod)
getModifierString(score) == SignedString(getModifier(score))

\* the scores before the race and the profession are applied
BaseScores == [str |-> 10, dex |-> 10, con |-> 10, int |-> 10, wis |-> 10, cha |-> 10]

\* scores.<ability> += delta
AddScore(scores, ability, delta) == [scores EXCEPT ![ability] = @ + delta]

\* the names of the skills
Perception == <<"P", "e", "r", "c", "e", "p", "t", "i", "o", "n">>
Intimidation == <<"I", "n", "t", "i", "m", "i", "d", "a", "t", "i", "o", "n">>
Athletics == <<"A", "t", "h", "l", "e", "t", "i", "c", "s">>
History == <<"H", "i", "s", "t", "o", "r", "y">>
Arcana == <<"A", "r", "c", "a", "n", "a">>
SleightOfHand == <<"S", "l", "e", "i", "g", "h", "t", " ", "o", "f", " ", "H", "a", "n", "d">>
Stealth == <<"S", "t", "e", "a", "l", "t", "h">>
AnimalHandling == <<"A", "n", "i", "m", "a", "l", " ", "H", "a", "n", "d", "l", "i", "n",
                    "g">>
Persuasion == <<"P", "e", "r", "s", "u", "a", "s", "i", "o", "n">>
Deception == <<"D", "e", "c", "e", "p", "t", "i", "o", "n">>

\* the two speeds
Speed30 == <<"3", "0", " ", "f", "t", ".">>
Speed25 == <<"2", "5", " ", "f", "t", ".">>

Common == <<"C", "o", "m", "m", "o", "n">>

\* the locals after the declarations: no race applies
NoRaceLocals ==
    [ scores |-> BaseScores, speed |-> Speed30, languages |-> <<Common>>,
      skills |-> <<>>, traits |-> <<>> ]

\* a skill of the object skills with its bonus: the skills are kept in the
\* order in which their keys were added
Skill(name) == [skill |-> name, bonus |-> profBonus]

\* the traits the races push: the character U+2019 is written "U+2019"
DwarvenResilience ==
    [ name |-> <<"D", "w", "a", "r", "v", "e", "n", " ", "R", "e", "s", "i", "l", "i", "e",
                 "n", "c", "e">>,
      description |-> <<"T", "h", "e", " ", "d", "w", "a", "r", "f", " ", "h", "a", "s",
                        " ", "a", "d", "v", "a", "n", "t", "a", "g", "e", " ", "o", "n",
                        " ", "s", "a", "v", "i", "n", "g", " ", "t", "h", "r", "o", "w",
                        "s", " ", "a", "g", "a", "i", "n", "s", "t", " ", "p", "o", "i",
                        "s", "o", "n", ".">> ]
FeyAncestryElf ==
    [ name |-> <<"F", "e", "y", " ", "A", "n", "c", "e", "s", "t", "r", "y">>,
      description |-> <<"T", "h", "e", " ", "e", "l", "f", " ", "h", "a", "s", " ", "a",
                        "d", "v", "a", "n", "t", "a", "g", "e", " ", "o", "n", " ", "s",
                        "a", "v", "i", "n", "g", " ", "t", "h", "r", "o", "w", "s", " ",
                        "a", "g", "a", "i", "n", "s", "t", " ", "b", "e", "i", "n", "g",
                        " ", "c", "h", "a", "r", "m", "e", "d", ",", " ", "a", "n", "d",
                        " ", "m", "a", "g", "i", "c", " ", "c", "a", "n", "U+2019", "t",
                        " ", "p", "u", "t", " ", "i", "t", " ", "t", "o", " ", "s", "l",
                        "e", "e", "p", ".">> ]
Lucky ==
    [ name |-> <<"L", "u", "c", "k", "y">>,
      description |-> <<"W", "h", "e", "n", " ", "t", "h", "e", " ", "h", "a", "l", "f",
                        "l", "i", "n", "g", " ", "r", "o", "l", "l", "s", " ", "a", " ",
                        "1", " ", "o", "n", " ", "a", "n", " ", "a", "t", "t", "a", "c",
                        "k", " ", "r", "o", "l", "l", ",", " ", "a", "b", "i", "l", "i",
                        "t", "y", " ", "c", "h", "e", "c", "k", ",", " ", "o", "r", " ",
                        "s", "a", "v", "i", "n", "g", " ", "t", "h", "r", "o", "w", ",",
                        " ", "i", "t", " ", "c", "a", "n", " ", "r", "e", "r", "o", "l",
                        "l", " ", "t", "h", "e", " ", "d", "i", "e", " ", "a", "n", "d",
                        " ", "m", "u", "s", "t", " ", "u", "s", "e", " ", "t", "h", "e",
                        " ", "n", "e", "w", " ", "r", "o", "l", "l", ".">> ]
GnomeCunning ==
    [ name |-> <<"G", "n", "o", "m", "e", " ", "C", "u", "n", "n", "i", "n", "g">>,
      description |-> <<"T", "h", "e", " ", "g", "n", "o", "m", "e", " ", "h", "a", "s",
                        " ", "a", "d", "v", "a", "n", "t", "a", "g", "e", " ", "o", "n",
                        " ", "a", "l", "l", " ", "I", "n", "t", "e", "l", "l", "i", "g",
                        "e", "n", "c", "e", ",", " ", "W", "i", "s", "d", "o", "m", ",",
                        " ", "a", "n", "d", " ", "C", "h", "a", "r", "i", "s", "m", "a",
                        " ", "s", "a", "v", "i", "n", "g", " ", "t", "h", "r", "o", "w",
                        "s", " ", "a", "g", "a", "i", "n", "s", "t", " ", "m", "a", "g",
                        "i", "c", ".">> ]
FeyAncestryHalfElf ==
    [ name |-> <<"F", "e", "y", " ", "A", "n", "c", "e", "s", "t", "r", "y">>,
      description |-> <<"T", "h", "e", " ", "h", "a", "l", "f", "-", "e", "l", "f", " ",
                        "h", "a", "s", " ", "a", "d", "v", "a", "n", "t", "a", "g", "e",
                        " ", "o", "n", " ", "s", "a", "v", "i", "n", "g", " ", "t", "h",
                        "r", "o", "w", "s", " ", "a", "g", "a", "i", "n", "s", "t", " ",
                        "b", "e", "i", "n", "g", " ", "c", "h", "a", "r", "m", "e", "d",
                        ",", " ", "a", "n", "d", " ", "m", "a", "g", "i", "c", " ", "c",
                        "a", "n", "U+2019", "t", " ", "p", "u", "t", " ", "i", "t", " ",
                        "t", "o", " ", "s", "l", "e", "e", "p", ".">> ]
RelentlessEndurance ==
    [ name |-> <<"R", "e", "l", "e", "n", "t", "l", "e", "s", "s", " ", "E", "n", "d", "u",
                 "r", "a", "n", "c", "e">>,
      description |-> <<"W", "h", "e", "n", " ", "t", "h", "e", " ", "h", "a", "l", "f",
                        "-", "o", "r", "c", " ", "i", "s", " ", "r", "e", "d", "u", "c",
                        "e", "d", " ", "t", "o", " ", "0", " ", "h", "i", "t", " ", "p",
                        "o", "i", "n", "t", "s", " ", "b", "u", "t", " ", "n", "o", "t",
                        " ", "k", "i", "l", "l", "e", "d", " ", "o", "u", "t", "r", "i",
                        "g", "h", "t", ",", " ", "i", "t", " ", "c", "a", "n", " ", "d",
                        "r", "o", "p", " ", "t", "o", " ", "1", " ", "h", "i", "t", " ",
                        "p", "o", "i", "n", "t", " ", "i", "n", "s", "t", "e", "a", "d",
                        ".", " ", "I", "t", " ", "c", "a", "n", "U+2019", "t", " ", "u",
                        "s", "e", " ", "t", "h", "i", "s", " ", "f", "e", "a", "t", "u",
                        "r", "e", " ", "a", "g", "a", "i", "n", " ", "u", "n", "t", "i",
                        "l", " ", "i", "t", " ", "f", "i", "n", "i", "s", "h", "e", "s",
                        " ", "a", " ", "l", "o", "n", "g", " ", "r", "e", "s", "t", ".">> ]
HellishResistance ==
    [ name |-> <<"H", "e", "l", "l", "i", "s", "h", " ", "R", "e", "s", "i", "s", "t", "a",
                 "n", "c", "e">>,
      description |-> <<"T", "h", "e", " ", "t", "i", "e", "f", "l", "i", "n", "g", " ",
                        "h", "a", "s", " ", "r", "e", "s", "i", "s", "t", "a", "n", "c",
                        "e", " ", "t", "o", " ", "f", "i", "r", "e", " ", "d", "a", "m",
                        "a", "g", "e", ".">> ]

\* the locals after the switch on npc.race
RaceLocals(race) ==
    CASE race = "Dwarf" ->
            [ scores |-> AddScore(BaseScores, "con", 2), speed |-> Speed25,
              languages |-> <<Common, <<"D", "w", "a", "r", "v", "i", "s", "h">>>>,
              skills |-> <<>>, traits |-> <<DwarvenResilience>> ]
      [] race = "Elf" ->
            [ scores |-> AddScore(BaseScores, "dex", 2), speed |-> Speed30,
              languages |-> <<Common, <<"E", "l", "v", "i", "s", "h">>>>,
              skills |-> <<Skill(Perception)>>, traits |-> <<FeyAncestryElf>> ]
      [] race = "Halfling" ->
            [ scores |-> AddScore(BaseScores, "dex", 2), speed |-> Speed25,
              languages |-> <<Common, <<"H", "a", "l", "f", "l", "i", "n", "g">>>>,
              skills |-> <<>>, traits |-> <<Lucky>> ]
      [] race = "Human" ->
            [ scores |-> AddScore(AddScore(AddScore(AddScore(AddScore(AddScore(BaseScores,
                              "str", 1), "dex", 1), "con", 1), "int", 1), "wis", 1), "cha", 1),
              speed |-> Speed30,
              languages |-> <<Common>>, skills |-> <<>>, traits |-> <<>> ]
      [] race = "Gnome" ->
            [ scores |-> AddScore(BaseScores, "int", 2), speed |-> Speed25,
              languages |-> <<Common, <<"G", "n", "o", "m", "i", "s", "h">>>>,
              skills |-> <<>>, traits |-> <<GnomeCunning>> ]
      [] race = "Half-elf" ->
            [ scores |-> AddScore(AddScore(AddScore(BaseScores, "cha", 2), "dex", 1), "int", 1),
              speed |-> Speed30,
              languages |-> <<Common, <<"E", "l", "v", "i", "s", "h">>>>,
              skills |-> <<Skill(Perception)>>, traits |-> <<FeyAncestryHalfElf>> ]
      [] race = "Half-orc" ->
            [ scores |-> AddScore(AddScore(BaseScores, "str", 2), "con", 1), speed |-> Speed30,
              languages |-> <<Common, <<"O", "r", "c">>>>,
              skills |-> <<Skill(Intimidation)>>, traits |-> <<RelentlessEndurance>> ]
      [] race = "Tiefling" ->
            [ scores |-> AddScore(AddScore(BaseScores, "cha", 2), "int", 1), speed |-> Speed30,
              languages |-> <<Common, <<"I", "n", "f", "e", "r", "n", "a", "l">>>>,
              skills |-> <<>>, traits |-> <<HellishResistance>> ]
      [] race = "Goliath" ->
            [ scores |-> AddScore(AddScore(BaseScores, "str", 2), "con", 1), speed |-> Speed30,
              languages |-> <<Common>>,
              skills |-> <<Skill(Athletics)>>, traits |-> <<>> ]
      [] OTHER -> NoRaceLocals

\* prof.includes(keyword)
Includes(s, t) == \E q \in 1..(Len(s) - Len(t) + 1) : HasAt(s, q, t)

\* the names of the weapons
Club == <<"C", "l", "u", "b">>
Spear == <<"S", "p", "e", "a", "r">>
Longsword == <<"L", "o", "n", "g", "s", "w", "o", "r", "d">>
Quarterstaff == <<"Q", "u", "a", "r", "t", "e", "r", "s", "t", "a", "f", "f">>
Dagger == <<"D", "a", "g", "g", "e", "r">>
Shortsword == <<"S", "h", "o", "r", "t", "s", "w", "o", "r", "d">>
Sickle == <<"S", "i", "c", "k", "l", "e">>
LightHammer == <<"L", "i", "g", "h", "t", " ", "H", "a", "m", "m", "e", "r">>
Rapier == <<"R", "a", "p", "i", "e", "r">>

\* the templates of the professions
DefaultTemplate ==
    [ac |-> 10, hpDice |-> <<1, 8>>, skills |-> <<>>, weapons |-> <<Club>>]
GuardTemplate ==
    [ac |-> 16, hpDice |-> <<2, 8>>, skills |-> <<Skill(Perception)>>,
     weapons |-> <<Spear, Longsword>>]
SageTemplate ==
    [ac |-> 10, hpDice |-> <<1, 8>>, skills |-> <<Skill(History), Skill(Arcana)>>,
     weapons |-> <<Quarterstaff>>]
ThiefTemplate ==
    [ac |-> 12, hpDice |-> <<2, 8>>, skills |-> <<Skill(SleightOfHand), Skill(Stealth)>>,
     weapons |-> <<Dagger, Shortsword>>]
FarmerTemplate ==
    [ac |-> 10, hpDice |-> <<1, 8>>, skills |-> <<Skill(AnimalHandling)>>,
     weapons |-> <<Sickle>>]
\* the smith template with a fourth hit die
SmithTemplateFourDice ==
    [ac |-> 13, hpDice |-> <<4, 8>>, skills |-> <<Skill(Athletics)>>,
     weapons |-> <<LightHammer>>]
SmithTemplate ==
    [ac |-> 13, hpDice |-> <<3, 8>>, skills |-> <<Skill(Athletics)>>,
     weapons |-> <<LightHammer>>]
NobleTemplate ==
    [ac |-> 10, hpDice |-> <<2, 8>>, skills |-> <<Skill(Persuasion), Skill(Deception)>>,
     weapons |-> <<Rapier>>]

\* the tests of the if / else if chain on prof
IsGuard(prof) ==

    Includes(prof, <<"g", "u", "a", "r", "d">>) \/ Includes(prof, <<"s", "o", "l", "d",
                                                                    "i", "e", "r">>) \/ Includes(prof, <<
                                                                                                         "m",
                                                                                                         "e",
                                                                                                         "r",
                                                                                                         "c",
                                                                                                         "e",
                                                                                                         "n",
                                                                                                         "a",
                                                                                                         "r",
                                                                                                         "y">>)
IsSage(prof) ==

    Includes(prof, <<"s", "a", "g", "e">>) \/ Includes(prof, <<"s", "c", "h", "o", "l",
                                                               "a", "r">>) \/ Includes(prof, <<
                                                                                               "s",
                                                                                               "c",
                                                                                               "r",
                                                                                               "i",
                                                                                               "b",
                                                                                               "e">>)
IsThief(prof) ==

    Includes(prof, <<"c", "u", "t", "p", "u", "r", "s", "e">>) \/ Includes(prof, <<"t",
                                                                                   "h",
                                                                                   "i",
                                                                                   "e", "f">>) \/ Includes(prof, <<
                                                                                                                   "b",
                                                                                                                   "u",
                                                                                                                   "r",
                                                                                                                   "g",
                                                                                                                   "l",
                                                                                                                   "a",
                                                                                                                   "r">>)
IsFarmer(prof) ==

    Includes(prof, <<"f", "a", "r", "m", "e", "r">>) \/ Includes(prof, <<"l", "a", "b",
                                                                         "o", "r", "e", "r">>)
IsSmith(prof) ==

    Includes(prof, <<"b", "l", "a", "c", "k", "s", "m", "i", "t", "h">>) \/ Includes(prof, <<
                                                                                             "m",
                                                                                             "a",
                                                                                             "s",
                                                                                             "o",
                                                                                             "n">>)
IsNoble(prof) ==

    Includes(prof, <<"n", "o", "b", "l", "e">>) \/ Includes(prof, <<"c", "o", "u", "r",
                                                                    "t", "i", "e", "r">>) \/ Includes(prof, <<
                                                                                                              "d",
                                                                                                              "i",
                                                                                                              "p",
                                                                                                              "l",
                                                                                                              "o",
                                                                                                              "m",
                                                                                                              "a",
                                                                                                              "t">>)

\* scores after two additions
AddScores(scores, a1, d1, a2, d2) == AddScore(AddScore(scores, a1, d1), a2, d2)

\* independent tests, each of which replaces the template and adds its bonus
Branch(taken, locals, template, a1, d1, a2, d2) ==
    IF taken THEN [template |-> template, scores |-> AddScores(locals.scores, a1, d1, a2, d2)]
    ELSE locals
ProfessionLocalsEveryMatch(prof, scores) ==
    Branch(IsNoble(prof),
        Branch(IsSmith(prof),
            Branch(IsFarmer(prof),
                Branch(IsThief(prof),
                    Branch(IsSage(prof),
                        Branch(IsGuard(prof), [template |-> DefaultTemplate, scores |-> scores],
                               GuardTemplate, "str", 2, "con", 1),
                        SageTemplate, "int", 2, "wis", 1),
                    ThiefTemplate, "dex", 2, "cha", 1),
                FarmerTemplate, "str", 2, "con", 1),
            SmithTemplate, "str", 2, "con", 1),
        NobleTemplate, "cha", 2, "int", 1)

\* template and scores after the if / else if chain on prof
ProfessionLocals(prof, scores) ==
    IF IsGuard(prof)
    THEN [template |-> GuardTemplate, scores |-> AddScores(scores, "str", 2, "con", 1)]
    ELSE IF IsSage(prof)
    THEN [template |-> SageTemplate, scores |-> AddScores(scores, "int", 2, "wis", 1)]
    ELSE IF IsThief(prof)
    THEN [template |-> ThiefTemplate, scores |-> AddScores(scores, "dex", 2, "cha", 1)]
    ELSE IF IsFarmer(prof)
    THEN [template |-> FarmerTemplate, scores |-> AddScores(scores, "str", 2, "con", 1)]
    ELSE IF IsSmith(prof)
    THEN [template |-> SmithTemplate, scores |-> AddScores(scores, "str", 2, "con", 1)]
    ELSE IF IsNoble(prof)
    THEN [template |-> NobleTemplate, scores |-> AddScores(scores, "cha", 2, "int", 1)]
    ELSE [template |-> DefaultTemplate, scores |-> scores]

\* skills[entry.skill] = entry.bonus: a new key is added after the others
HasSkill(skills, name) == \E i \in 1..Len(skills) : skills[i].skill = name
SetSkill(skills, entry) ==
    IF HasSkill(skills, entry.skill)
    THEN [i \in 1..Len(skills) |-> IF skills[i].skill = entry.skill THEN entry ELSE skills[i]]
    ELSE Append(skills, entry)

\* Object.assign(skills, template.skills)
RECURSIVE AssignSkills(_, _)
AssignSkills(skills, added) ==
    IF added = <<>> THEN skills ELSE AssignSkills(SetSkill(skills, Head(added)), Tail(added))

\* mods
Mods(scores) ==
    [ str |-> getModifier(scores.str), dex |-> getModifier(scores.dex),
      con |-> getModifier(scores.con), int |-> getModifier(scores.int),
      wis |-> getModifier(scores.wis), cha |-> getModifier(scores.cha) ]

MathMax(a, b) == IF a >= b THEN a ELSE b
MathAbs(a) == IF a >= 0 THEN a ELSE -a

\* hp with the average of one die rounded down before it is multiplied
HpRoundedPerDie(template, mods) ==
    MathMax(1, (template.hpDice[1] * 4) + (template.hpDice[1] * mods.con))
\* hp: Math.floor(n * 4.5) is 9n / 2 rounded down
Hp(template, mods) ==
    MathMax(1, ((template.hpDice[1] * 9) \div 2) + (template.hpDice[1] * mods.con))

\* ' + ' or ' - ' by the sign of a modifier

SignText(mod) == IF mod >= 0 THEN <<" ", "+", " ">> ELSE <<" ", "-", " ">>

\* hitPoints
HitPoints(template, mods, hp) ==

    NumberToString(hp) \o <<" ", "(">> \o NumberToString(template.hpDice[1]) \o <<"d">>
        \o NumberToString(template.hpDice[2]) \o SignText(mods.con)
        \o NumberToString(MathAbs(template.hpDice[1] * mods.con)) \o <<")">>

\* the modifier of the ability of a skill, or 0
SkillAbility(skill, mods) ==
    CASE skill = Athletics -> mods.str
      [] skill = Stealth -> mods.dex
      [] skill = SleightOfHand -> mods.dex
      [] skill = Arcana -> mods.int
      [] skill = History -> mods.int
      [] skill = Perception -> mods.wis
      [] skill = AnimalHandling -> mods.wis
      [] skill = Deception -> mods.cha
      [] skill = Intimidation -> mods.cha
      [] skill = Persuasion -> mods.cha
      [] OTHER -> 0

\* the text of one entry of skills
SkillText(entry, mods) ==
    entry.skill \o <<" ">>
        \o getModifierString(10 + (SkillAbility(entry.skill, mods) * 2) + entry.bonus)

\* Object.entries(skills).map(...), from entry i on
RECURSIVE SkillTexts(_, _, _)
SkillTexts(skills, mods, i) ==
    IF i > Len(skills) THEN <<>>
    ELSE <<SkillText(skills[i], mods)>> \o SkillTexts(skills, mods, i + 1)

\* skillString
SkillString(skills, mods) == Join(SkillTexts(skills, mods, 1), <<",", " ">>)

\* passivePerception
PassivePerception(skills, mods) ==
    10 + mods.wis + (IF HasSkill(skills, Perception) THEN profBonus ELSE 0)

\* weaponData[w], or null for a name that is not a key
WeaponEntry(type, damage, range, versatile) ==
    [type |-> type, damage |-> damage, range |-> range, versatile |-> versatile]
Range2060 == Str(<<"2", "0", "/", "6", "0", " ", "f", "t", ".">>)
weaponData(w) ==
    CASE w = Club -> WeaponEntry("str", <<"1", "d", "4">>, Undefined, Undefined)
      [] w = Dagger -> WeaponEntry("dex", <<"1", "d", "4">>, Range2060, Undefined)
      [] w = LightHammer -> WeaponEntry("str", <<"1", "d", "4">>, Range2060, Undefined)

      [] w = Quarterstaff -> WeaponEntry("str", <<"1", "d", "6">>, Undefined, Str(<<"1",
                                                                                    "d", "8">>))
      [] w = Sickle -> WeaponEntry("str", <<"1", "d", "4">>, Undefined, Undefined)

      [] w = Spear -> WeaponEntry("str", <<"1", "d", "6">>, Range2060, Str(<<"1", "d", "8">>))

      [] w = Longsword -> WeaponEntry("str", <<"1", "d", "8">>, Undefined, Str(<<"1", "d",
                                                                                 "1", "0">>))
      [] w = Shortsword -> WeaponEntry("dex", <<"1", "d", "6">>, Undefined, Undefined)
      [] w = Rapier -> WeaponEntry("dex", <<"1", "d", "8">>, Undefined, Undefined)
      [] OTHER -> Null

\* a string that is defined and not empty
IsTruthy(value) == ~value.undef /\ Len(value.str) > 0

\* parts[i] with a 0-based index, as the argument parseInt sees it
PartAt(parts, i) == IF i + 1 <= Len(parts) THEN parts[i + 1] ELSE UndefinedString

\* parseInt(dice.split('d')[1])
DieSize(dice) == parseInt(PartAt(Split(dice, "d"), 1))

\* Math.floor(n / 2 + 1) + damageMod for the number n
AverageFor(n, damageMod) == IF n.nan THEN NaN ELSE Num((n.val \div 2) + 1 + damageMod)
AverageDamage(dice, damageMod) == AverageFor(DieSize(dice), damageMod)

\* String(n) of a template literal, for a number n
NumString(n) == IF n.nan THEN <<"N", "a", "N">> ELSE NumberToString(n.val)

\* `${average} (${dice}${sign}${Math.abs(damageMod)})`
DamageClause(dice, damageMod) ==
    NumString(AverageDamage(dice, damageMod)) \o <<" ", "(">> \o dice \o SignText(damageMod)
        \o NumberToString(MathAbs(damageMod)) \o <<")">>

\* `${attackMod >= 0 ? '+' : ''}${attackMod}`
ToHit(attackMod) == IF attackMod >= 0 THEN <<"+">> \o NumberToString(attackMod) ELSE NumberToString(attackMod)

MeleeDescription(data, attackMod, damageMod) ==
    <<"M", "e", "l", "e", "e", " ", "W", "e", "a", "p", "o", "n", " ", "A", "t", "t", "a",
      "c", "k", ":", " ">> \o ToHit(attackMod)
        \o <<" ", "t", "o", " ", "h", "i", "t", ",", " ", "r", "e", "a", "c", "h", " ",
             "5", " ", "f", "t", ".", ",", " ", "o", "n", "e", " ", "t", "a", "r", "g",
             "e", "t", ".", " ", "H", "i", "t", ":", " ">>
        \o DamageClause(data.damage, damageMod) \o <<" ", "p", "i", "e", "r", "c", "i",
                                                     "n", "g", " ", "d", "a", "m", "a",
                                                     "g", "e", ".">>

RangedDescription(data, attackMod, damageMod) ==
    <<"M", "e", "l", "e", "e", " ", "o", "r", " ", "R", "a", "n", "g", "e", "d", " ", "W",
      "e", "a", "p", "o", "n", " ", "A", "t", "t", "a", "c", "k", ":", " ">> \o ToHit(attackMod)
        \o <<" ", "t", "o", " ", "h", "i", "t", ",", " ", "r", "e", "a", "c", "h", " ",
             "5", " ", "f", "t", ".", " ", "o", "r", " ", "r", "a", "n", "g", "e", " ">> \o data.range.str
        \o <<",", " ", "o", "n", "e", " ", "t", "a", "r", "g", "e", "t", ".", " ", "H",
             "i", "t", ":", " ">>
        \o DamageClause(data.damage, damageMod) \o <<" ", "p", "i", "e", "r", "c", "i",
                                                     "n", "g", " ", "d", "a", "m", "a",
                                                     "g", "e", ".">>

VersatileClause(data, damageMod) ==
    <<" ", "o", "r", " ">> \o DamageClause(data.versatile.str, damageMod)
        \o <<" ", "d", "a", "m", "a", "g", "e", " ", "i", "f", " ", "u", "s", "e", "d",
             " ", "w", "i", "t", "h", " ", "t", "w", "o", " ", "h", "a", "n", "d", "s", ".">>

\* desc
WeaponDescription(data, attackMod, damageMod) ==
    (IF IsTruthy(data.range) THEN RangedDescription(data, attackMod, damageMod)
     ELSE MeleeDescription(data, attackMod, damageMod))
        \o (IF IsTruthy(data.versatile) THEN VersatileClause(data, damageMod) ELSE <<>>)

\* the callback without the proficiency bonus in attackMod
WeaponActionUnproficient(w, data, mods) ==
    IF data = Null THEN Null
    ELSE [ name |-> w,
           description |-> WeaponDescription(data, mods[data.type], mods[data.type]) ]
\* the callback of template.weapons.map for the weapon w with entry data
WeaponActionFor(w, data, mods) ==
    IF data = Null THEN Null
    ELSE [ name |-> w,
           description |-> WeaponDescription(data, mods[data.type] + profBonus, mods[data.type]) ]
WeaponAction(w, mods) == WeaponActionFor(w, weaponData(w), mods)

\* <<action>>, or nothing for null: filter(Boolean) on one element
KeepAction(action) == IF action = Null THEN <<>> ELSE <<action>>

\* template.weapons.map(...).filter(Boolean), from weapon i on
RECURSIVE ActionsFrom(_, _, _)
ActionsFrom(weapons, mods, i) ==
    IF i > Len(weapons) THEN <<>>
    ELSE KeepAction(WeaponAction(weapons[i], mods)) \o ActionsFrom(weapons, mods, i + 1)

\* actions
Actions(weapons, mods) == ActionsFrom(weapons, mods, 1)

\* challenge with the first threshold at 9
ChallengeAboveNine(hp) ==
    IF hp > 35 THEN <<"1", "/", "4", " ", "(", "5", "0", " ", "X", "P", ")">>
    ELSE IF hp > 9 THEN <<"1", "/", "8", " ", "(", "2", "5", " ", "X", "P", ")">>
    ELSE <<"0", " ", "(", "1", "0", " ", "X", "P", ")">>
\* challenge
Challenge(hp) ==
    IF hp > 35 THEN <<"1", "/", "4", " ", "(", "5", "0", " ", "X", "P", ")">>
    ELSE IF hp > 6 THEN <<"1", "/", "8", " ", "(", "2", "5", " ", "X", "P", ")">>
    ELSE <<"0", " ", "(", "1", "0", " ", "X", "P", ")">>

\* the locals of generateStats before the return
StatsLocalsWithMods(race, prof, skills, mods) ==
    [ scores |-> prof.scores, speed |-> race.speed, languages |-> race.languages,
      traits |-> race.traits, template |-> prof.template, skills |-> skills,
      mods |-> mods, hp |-> Hp(prof.template, mods) ]
StatsLocalsOf(race, prof) ==
    StatsLocalsWithMods(race, prof, AssignSkills(race.skills, prof.template.skills),
                        Mods(prof.scores))
StatsLocalsAfterRace(race, profession) ==
    StatsLocalsOf(race, ProfessionLocals(ToLowerCase(profession), race.scores))
\* a variant that reads a field other than race and profession
GenerateStatsLocalsByGold(npc) ==
    StatsLocalsAfterRace([RaceLocals(npc.race) EXCEPT
                              !.scores = AddScore(@, "int", IF npc.gold > 0 THEN 2 ELSE 0)],
                         npc.profession)
GenerateStatsLocals(npc) == StatsLocalsAfterRace(RaceLocals(npc.race), npc.profession)

\* the object generateStats returns
StatBlock(l) ==
    [ armorClass    |-> l.template.ac,
      hitPoints     |-> HitPoints(l.template, l.mods, l.hp),
      speed         |-> l.speed,
      abilityScores |-> l.scores,
      abilityMods   |-> [ str |-> getModifierString(l.scores.str),
                          dex |-> getModifierString(l.scores.dex),
                          con |-> getModifierString(l.scores.con),
                          int |-> getModifierString(l.scores.int),
                          wis |-> getModifierString(l.scores.wis),
                          cha |-> getModifierString(l.scores.cha) ],
      skills        |-> SkillString(l.skills, l.mods),
      senses        |-> <<"p", "a", "s", "s", "i", "v", "e", " ", "P", "e", "r", "c", "e",
                          "p", "t", "i", "o", "n", " ">>
                            \o NumberToString(PassivePerception(l.skills, l.mods)),
      languages     |-> Join(l.languages, <<",", " ">>),
      challenge     |-> Challenge(l.hp),
      actions       |-> Actions(l.template.weapons, l.mods),
      traits        |-> l.traits ]

generateStats(npc) == StatBlock(GenerateStatsLocals(npc))

\* ---- the npc prop of NpcCard ----

\* the races generateStats has a case for, and one it has none for
Races == {"Dwarf", "Elf", "Halfling", "Human", "Gnome", "Half-elf", "Half-orc",
          "Tiefling", "Goliath", "Dragonborn"}

\* words a profession is put together from; group is the first branch of the
\* profession chain that has a keyword inside the word, 0 for none
ProfessionWords ==
    << [text |-> <<"N", "o", "b", "l", "e">>, group |-> 6],
       [text |-> <<"s", "a", "g", "e">>, group |-> 2],
       [text |-> <<"G", "u", "a", "r", "d">>, group |-> 1],
       [text |-> <<"s", "o", "l", "d", "i", "e", "r">>, group |-> 1],
       [text |-> <<"M", "e", "r", "c", "e", "n", "a", "r", "y">>, group |-> 1],
       [text |-> <<"s", "c", "h", "o", "l", "a", "r">>, group |-> 2],
       [text |-> <<"S", "c", "r", "i", "b", "e">>, group |-> 2],
       [text |-> <<"c", "u", "t", "p", "u", "r", "s", "e">>, group |-> 3],
       [text |-> <<"T", "h", "i", "e", "f">>, group |-> 3],
       [text |-> <<"b", "u", "r", "g", "l", "a", "r">>, group |-> 3],
       [text |-> <<"F", "a", "r", "m", "e", "r">>, group |-> 4],
       [text |-> <<"l", "a", "b", "o", "r", "e", "r">>, group |-> 4],
       [text |-> <<"B", "l", "a", "c", "k", "s", "m", "i", "t", "h">>, group |-> 5],
       [text |-> <<"m", "a", "s", "o", "n">>, group |-> 5],
       [text |-> <<"c", "o", "u", "r", "t", "i", "e", "r">>, group |-> 6],
       [text |-> <<"D", "i", "p", "l", "o", "m", "a", "t">>, group |-> 6],
       [text |-> <<"b", "a", "k", "e", "r">>, group |-> 0],
       [text |-> <<"B", "o", "d", "y", "g", "u", "a", "r", "d">>, group |-> 1],
       [text |-> <<"I", "n", "n", "k", "e", "e", "p", "e", "r">>, group |-> 0] >>

\* the profession of an npc: a space and one or two words
ProfessionText(first, second) ==
    <<" ">> \o ProfessionWords[first].text
        \o (IF second = 0 THEN <<>> ELSE <<" ">> \o ProfessionWords[second].text)

\* fields of an npc that generateStats does not read
OtherFields ==

    { [name |-> <<"T", "o", "m", " ", "R", "e", "e", "d">>, intelligence |-> <<"b", "r",
                                                                               "i", "l",
                                                                               "l", "i",
                                                                               "a", "n", "t">>, gold |-> 0],

      [name |-> <<"A", "n", "n", " ", "L", "e", "e">>, intelligence |-> <<"d", "i", "m">>, gold |-> 12] }

MakeNpc(race, profession, other) ==
    [ name |-> other.name, race |-> race, intelligence |-> other.intelligence,
      profession |-> profession, gold |-> other.gold ]

(***************************************************************************)
(* App: handleGenerateProfile and handleGenerateImage.                     *)
(***************************************************************************)
\* a settled promise, as Promise.allSettled reports it
Fulfilled(value) == [status |-> "fulfilled", value |-> value]
Rejected(reason) == [status |-> "rejected", reason |-> reason]

\* new Error(message)
Error(message) == [tag |-> "Error", message |-> message]

ProfileKeyMessage == <<"A", "P", "I", " ", "K", "e", "y", " ", "n", "o", "t", " ", "c",
                       "o", "n", "f", "i", "g", "u", "r", "e", "d", ".", " ", "A", "I",
                       " ", "f", "e", "a", "t", "u", "r", "e", "s", " ", "a", "r", "e",
                       " ", "u", "n", "a", "v", "a", "i", "l", "a", "b", "l", "e", ".">>
ProfileFailedMessage ==
    <<"T", "h", "e", " ", "A", "I", " ", "f", "a", "i", "l", "e", "d", " ", "t", "o", " ",
      "g", "e", "n", "e", "r", "a", "t", "e", " ", "a", " ", "p", "r", "o", "f", "i", "l",
      "e", ".", " ", "T", "h", "i", "s", " ", "c", "o", "u", "l", "d", " ", "b", "e", " ",
      "a", " ", "t", "e", "m", "p", "o", "r", "a", "r", "y", " ", "i", "s", "s", "u", "e",
      " ", "o", "r", " ", "a", " ", "p", "r", "o", "b", "l", "e", "m", " ", "w", "i", "t",
      "h", " ", "t", "h", "e", " ", "A", "P", "I", " ", "k", "e", "y", ".", " ", "P", "l",
      "e", "a", "s", "e", " ", "t", "r", "y", " ", "a", "g", "a", "i", "n", ".">>
ImageKeyMessage == <<"A", "P", "I", " ", "K", "e", "y", " ", "n", "o", "t", " ", "c", "o",
                     "n", "f", "i", "g", "u", "r", "e", "d", ".", " ", "I", "m", "a", "g",
                     "e", " ", "g", "e", "n", "e", "r", "a", "t", "i", "o", "n", " ", "i",
                     "s", " ", "u", "n", "a", "v", "a", "i", "l", "a", "b", "l", "e", ".">>
ImageFailedMessage ==
    <<"T", "h", "e", " ", "A", "I", " ", "f", "a", "i", "l", "e", "d", " ", "t", "o", " ",
      "g", "e", "n", "e", "r", "a", "t", "e", " ", "a", "n", " ", "i", "m", "a", "g", "e",
      ".", " ", "T", "h", "i", "s", " ", "c", "o", "u", "l", "d", " ", "b", "e", " ", "a",
      " ", "t", "e", "m", "p", "o", "r", "a", "r", "y", " ", "i", "s", "s", "u", "e", ".",
      " ", "P", "l", "e", "a", "s", "e", " ", "t", "r", "y", " ", "a", "g", "a", "i", "n",
      ".">>
PortraitFailedMessage ==
    <<"T", "h", "e", " ", "c", "h", "a", "r", "a", "c", "t", "e", "r", " ", "p", "r", "o",
      "f", "i", "l", "e", " ", "w", "a", "s", " ", "c", "r", "e", "a", "t", "e", "d", ",",
      " ", "b", "u", "t", " ", "t", "h", "e", " ", "p", "o", "r", "t", "r", "a", "i", "t",
      " ", "c", "o", "u", "l", "d", " ", "n", "o", "t", " ", "b", "e", " ", "g", "e", "n",
      "e", "r", "a", "t", "e", "d", ".">>
UnknownGenerationMessage == <<"A", "n", " ", "u", "n", "k", "n", "o", "w", "n", " ", "e",
                              "r", "r", "o", "r", " ", "o", "c", "c", "u", "r", "r", "e",
                              "d", " ", "d", "u", "r", "i", "n", "g", " ", "g", "e", "n",
                              "e", "r", "a", "t", "i", "o", "n", ".">>
UnknownMessage == <<"A", "n", " ", "u", "n", "k", "n", "o", "w", "n", " ", "e", "r", "r",
                    "o", "r", " ", "o", "c", "c", "u", "r", "r", "e", "d", ".">>

\* texts the model returns as response.text, and image data it returns
ProfileTexts == { <<"#", "#", "#", " ", "*", "*", "M", "i", "r", "a", " ", "V", "a", "l",
                    "e", "*", "*">>, <<"*", "*", "R", "o", "l", "e", ":", "*", "*", " ",
                                       "G", "u", "a", "r", "d">> }

ImageData == { <<"a", "V", "Z", "C", "T", "1", "J", "3">>, <<"U", "E", "5", "H", "I", "Q",
                                                             "=", "=">> }

\* the character fields generateNpcImage writes into its prompt
ImagePrompt(npc) == [race |-> npc.race, profession |-> npc.profession]

\* the image the service returns for the prompt of npc: data, kept together
\* with the prompt it was drawn for
Portrait(npc, data) == [prompt |-> ImagePrompt(npc), data |-> data]

\* a promise that has not settled
Pending == [status |-> "pending"]

\* decodeDnaProfile settles as with a client whether there is one or not
ProfileResultsUnguarded(client) ==
    {Fulfilled(t) : t \in ProfileTexts} \cup {Rejected(Error(ProfileFailedMessage))}
\* how decodeDnaProfile settles, with and without a client
ProfileResults(client) ==
    IF client
    THEN {Fulfilled(t) : t \in ProfileTexts} \cup {Rejected(Error(ProfileFailedMessage))}
    ELSE {Rejected(Error(ProfileKeyMessage))}

\* how generateNpcImage(npc) settles, with and without a client
ImageResults(client, npc) ==
    IF client
    THEN {Fulfilled(Portrait(npc, d)) : d \in ImageData}
             \cup {Rejected(Error(ImageFailedMessage))}
    ELSE {Rejected(Error(ImageKeyMessage))}

\* whether a call of decodeDnaProfile or generateNpcImage reaches
\* ai.models.generateContent
ServiceCalled(client) == client

\* Math.random's state when generatePersonalityDna is called, after the draws
\* of generateNpc
AppSeeds == {[x |-> s, w |-> 1] : s \in 0..MaxAppSeed}

\* characters generateNpc returns
AppNpcs ==
    { MakeNpc("Elf", ProfessionText(3, 0),
              [name |-> <<"T", "o", "m", " ", "R", "e", "e", "d">>,
               intelligence |-> <<"b", "r", "i", "l", "l", "i", "a", "n", "t">>, gold |-> 0]),
      MakeNpc("Dwarf", ProfessionText(9, 0),
              [name |-> <<"A", "n", "n", " ", "L", "e", "e">>,
               intelligence |-> <<"d", "i", "m">>, gold |-> 12]) }

\* the message shown for err with every error reported as unknown
ErrorMessageGeneric(err, fallback) == fallback
\* err instanceof Error ? err.message : fallback
ErrorMessage(err, fallback) == IF err.tag = "Error" THEN err.message ELSE fallback

\* the values with setDna left out
AppValuesWithoutDna(npcValue, dnaValue, profileValue, imageValue, errorValue) ==
    [ npc |-> npcValue, dna |-> Null, npcProfile |-> profileValue,
      imageUrl |-> imageValue, error |-> errorValue ]
\* the state a call of handleGenerateProfile leaves, as the values of the
\* five state variables it sets
AppValues(npcValue, dnaValue, profileValue, imageValue, errorValue) ==
    [ npc |-> npcValue, dna |-> dnaValue, npcProfile |-> profileValue,
      imageUrl |-> imageValue, error |-> errorValue ]

\* the catch block
CatchValues(err) ==
    AppValues(Null, Null, Null, Null, Str(ErrorMessage(err, UnknownGenerationMessage)))

\* the branch on imageResult with a failed portrait left unreported
ImageValuesSilent(call, profileResult, imageResult, errorValue) ==
    AppValues(call.baseNpc, Str(call.personalityDna), Str(profileResult.value),
              IF imageResult.status = "fulfilled" THEN Str(imageResult.value) ELSE Null,
              errorValue)
\* the statements after the test of profileResult: the profile is kept, and
\* the branch on imageResult sets the image or the portrait message
ImageValues(call, profileResult, imageResult, errorValue) ==
    IF imageResult.status = "fulfilled"
    THEN AppValues(call.baseNpc, Str(call.personalityDna), Str(profileResult.value),
                   Str(imageResult.value), errorValue)
    ELSE AppValues(call.baseNpc, Str(call.personalityDna), Str(profileResult.value),
                   Null, Str(PortraitFailedMessage))

\* the try block after the await, with its catch
SettledValues(call, profileResult, imageResult, errorValue) ==
    IF profileResult.status = "rejected" THEN CatchValues(profileResult.reason)
    ELSE ImageValues(call, profileResult, imageResult, errorValue)

\* the await of Promise.allSettled continues once the profile has settled
ProfileAloneSettled(call) == call.profileResult.status # "pending"
\* the await of Promise.allSettled continues only when both promises are fulfilled
BothFulfilled(call) ==
    call.profileResult.status = "fulfilled" /\ call.imageResult.status = "fulfilled"
\* the await of Promise.allSettled continues when both promises have settled
BothSettled(call) ==
    call.profileResult.status # "pending" /\ call.imageResult.status # "pending"

\* the catch block of handleGenerateImage with the old image kept
RetryValuesKeepingImage(result, imageValue, errorValue) ==
    IF result.status = "fulfilled"
    THEN [imageUrl |-> Str(result.value), error |-> errorValue]
    ELSE [imageUrl |-> imageValue, error |-> Str(ErrorMessage(result.reason, UnknownMessage))]
\* handleGenerateImage after its await: imageUrl and error
RetryValues(result, imageValue, errorValue) ==
    IF result.status = "fulfilled"
    THEN [imageUrl |-> Str(result.value), error |-> errorValue]
    ELSE [imageUrl |-> Null, error |-> Str(ErrorMessage(result.reason, UnknownMessage))]

\* the Generate button is never disabled
GenerateNeverDisabled == FALSE
\* disabled={isProfileLoading} of the Generate button
GenerateDisabled == isProfileLoading

\* setIsProfileLoading(false) as the last statement of the try block
LoadingAfterTry(profileResult) == profileResult.status = "rejected"
\* isProfileLoading after the finally block
LoadingAfterFinally(profileResult) == FALSE

NoCall == [at |-> "idle"]

\* App before the first click
AppInit ==
    /\ aiClient \in BOOLEAN
    /\ appNpc = Null
    /\ npcProfile = Null
    /\ imageUrl = Null
    /\ appDna = Null
    /\ appError = Null
    /\ isProfileLoading = FALSE
    /\ isImageLoading = FALSE
    /\ profileCall = NoCall
    /\ imageCall = NoCall

\* App is not used
AppIdle ==
    /\ aiClient = TRUE
    /\ appNpc = Null
    /\ npcProfile = Null
    /\ imageUrl = Null
    /\ appDna = Null
    /\ appError = Null
    /\ isProfileLoading = FALSE
    /\ isImageLoading = FALSE
    /\ profileCall = NoCall
    /\ imageCall = NoCall

NoLocals == [ lnc |-> <<>>, gne |-> <<>>, lncDna |-> <<>>, gneDna |-> <<>>,
              lncScores |-> <<>>, gneScores |-> <<>>, lncAverage |-> 0, gneAverage |-> 0 ]

CodecInit ==
    /\ rng \in [x : 0..MaxSeed, w : 0..MaxIncrement]
    /\ pc = "start"
    /\ genLocals = NoLocals
    /\ genDna = <<>>
    /\ decodeArg = <<>>
    /\ decodeResult = [kind |-> "none"]

\* no string is generated or decoded
CodecIdle ==
    /\ rng = [x |-> 0, w |-> 0]
    /\ pc = "start"
    /\ genLocals = NoLocals
    /\ genDna = <<>>
    /\ decodeArg = <<>>
    /\ decodeResult = [kind |-> "none"]

\* NpcCard before a profile arrives: the memo of an empty profile is null
ParserInit ==
    /\ profile = <<>>
    /\ profileParts = NoParts
    /\ parsedProfile = Null
    /\ parseWarned = FALSE
    /\ parseLocals = NoParseLocals

\* NpcCard is not rendered: there is no npc prop and no stats memo
StatsInit ==
    /\ cardNpc = Null
    /\ npcParts = Null
    /\ statsLocals = Null
    /\ stats = Null

Init == CodecInit /\ ParserInit /\ StatsInit /\ AppIdle

\* a new cycle: the previous cycle's string and its decoding are dropped
Generate ==
    /\ pc \in {"start", "decoded"}
    /\ genLocals' = GenerateLocals(rng)
    /\ genDna' = generatePersonalityDna(rng)
    /\ rng' = RngAfterGenerate(rng)
    /\ pc' = "generated"
    /\ decodeArg' = <<>>
    /\ decodeResult' = [kind |-> "none"]
    /\ UNCHANGED <<parserVars, statsVars, appVars>>

\* a caller calls decodeDna on some string
Decode ==
    /\ pc = "generated"
    /\ \E k \in InputKinds :
          /\ decodeArg' = DecodeInput(genDna, k)
          /\ decodeResult' = decodeDna(DecodeInput(genDna, k))
    /\ pc' = "decoded"
    /\ UNCHANGED <<rng, genLocals, genDna>>
    /\ UNCHANGED <<parserVars, statsVars, appVars>>

Next == Generate \/ Decode

Spec == Init /\ [][Next]_vars

\* NpcCard is rendered with a profile text: the render computes the memo
RenderCard ==
    /\ profile = <<>>
    /\ \E pre \in PreambleKinds, body \in BodyKinds, rotation \in 0..MaxRotation,
          stride \in 1..MaxStride, shift \in 0..MaxStyleShift, count \in SectionCounts :
          \E parts \in {[ preamble |-> pre,
                          order |-> SubSeq(SectionOrder(rotation, stride), 1, count),
                          shift |-> shift, body |-> body ]} :
          \E text \in {RenderProfile(parts)} :
          \E locals \in {ParseLocals(text)} :
          \E result \in {ComputeParsedProfile(text, locals, DefaultNpcName)} :
              /\ text # <<>>
              /\ profileParts' = parts
              /\ profile' = text
              /\ parsedProfile' = result
              /\ parseWarned' = (result.tag = "content" /\ TooLittleParsed(result))
              /\ parseLocals' = locals
    /\ UNCHANGED <<codecVars, statsVars, appVars>>

\* the profile is cleared for a new cycle: the memo of no profile is null
ClearProfile ==
    /\ profile # <<>>
    /\ profile' = <<>>
    /\ profileParts' = NoParts
    /\ parsedProfile' = ComputeParsedProfile(<<>>, NoParseLocals, DefaultNpcName)
    /\ parseWarned' = FALSE
    /\ parseLocals' = NoParseLocals
    /\ UNCHANGED <<codecVars, statsVars, appVars>>

ParserNext == RenderCard \/ ClearProfile

\* NpcCard before a profile arrives, with no string generated or decoded
ParserStart == CodecIdle /\ ParserInit /\ StatsInit /\ AppIdle

ParserSpec == ParserStart /\ [][ParserNext]_vars
\* ---- NpcCard: the stats memo ----

\* NpcCard is mounted with an npc: useMemo(() => generateStats(npc), [npc])
RenderStats ==
    /\ cardNpc = Null
    /\ \E race \in Races : \E first \in 1..Len(ProfessionWords) :
       \E second \in 0..MaxSecondWord : \E other \in OtherFields :
       \E npc \in {MakeNpc(race, ProfessionText(first, second), other)} :
          /\ cardNpc' = npc
          /\ npcParts' = [first |-> first, second |-> second]
          /\ statsLocals' = GenerateStatsLocals(npc)
          /\ stats' = generateStats(npc)
    /\ UNCHANGED <<codecVars, parserVars, appVars>>

\* the next generation clears npc and the card is unmounted
ClearNpc ==
    /\ cardNpc # Null
    /\ cardNpc' = Null
    /\ npcParts' = Null
    /\ statsLocals' = Null
    /\ stats' = Null
    /\ UNCHANGED <<codecVars, parserVars, appVars>>

StatsNext == RenderStats \/ ClearNpc

StatsStart == CodecIdle /\ ParserInit /\ StatsInit /\ AppIdle

StatsSpec == StatsStart /\ [][StatsNext]_vars

\* ---- App ----

\* a click on 'Generate NPC Profile': handleGenerateProfile up to its await,
\* with both calls started
HandleGenerateProfile ==
    /\ ~GenerateDisabled
    /\ isProfileLoading' = TRUE
    /\ appError' = Null
    /\ appNpc' = Null
    /\ npcProfile' = Null
    /\ imageUrl' = Null
    /\ appDna' = Null
    /\ \E baseNpc \in AppNpcs : \E seed \in AppSeeds :
          /\ genLocals' = GenerateLocals(seed)
          /\ genDna' = generatePersonalityDna(seed)
          /\ rng' = RngAfterGenerate(seed)
          /\ profileCall' = [at |-> "await", baseNpc |-> baseNpc, personalityDna |-> genDna',
                             profileSent |-> ServiceCalled(aiClient),
                             imageSent |-> ServiceCalled(aiClient),
                             profileResult |-> Pending, imageResult |-> Pending]
    /\ pc' = "generated"
    /\ decodeArg' = <<>>
    /\ decodeResult' = [kind |-> "none"]
    /\ UNCHANGED <<aiClient, isImageLoading, imageCall, parserVars, statsVars>>

\* the promise of decodeDnaProfile(personalityDna, baseNpc) settles
DecodeProfileSettles ==
    /\ profileCall.at = "await"
    /\ profileCall.profileResult = Pending
    /\ \E result \in ProfileResults(aiClient) :
          profileCall' = [profileCall EXCEPT !.profileResult = result]
    /\ UNCHANGED <<aiClient, appNpc, npcProfile, imageUrl, appDna, appError, isProfileLoading,
                   isImageLoading, imageCall, codecVars, parserVars, statsVars>>

\* the promise of generateNpcImage(baseNpc) settles
PortraitSettles ==
    /\ profileCall.at = "await"
    /\ profileCall.imageResult = Pending
    /\ \E result \in ImageResults(aiClient, profileCall.baseNpc) :
          profileCall' = [profileCall EXCEPT !.imageResult = result]
    /\ UNCHANGED <<aiClient, appNpc, npcProfile, imageUrl, appDna, appError, isProfileLoading,
                   isImageLoading, imageCall, codecVars, parserVars, statsVars>>

\* both promises have settled: handleGenerateProfile from its await to its end
ProfileSettled ==
    /\ profileCall.at = "await"
    /\ BothSettled(profileCall)
    /\ \E v \in {SettledValues(profileCall, profileCall.profileResult, profileCall.imageResult,
                                appError)} :
          /\ appNpc' = v.npc
          /\ appDna' = v.dna
          /\ npcProfile' = v.npcProfile
          /\ imageUrl' = v.imageUrl
          /\ appError' = v.error
    /\ profileCall' = [profileCall EXCEPT !.at = "done"]
    /\ isProfileLoading' = LoadingAfterFinally(profileCall.profileResult)
    /\ UNCHANGED <<aiClient, isImageLoading, imageCall, codecVars, parserVars, statsVars>>

\* a click on the portrait button of the card: handleGenerateImage up to its await
HandleGenerateImage ==
    /\ appNpc # Null
    /\ npcProfile # Null
    /\ appDna # Null
    /\ ~isProfileLoading
    /\ ~isImageLoading
    /\ isImageLoading' = TRUE
    /\ appError' = Null
    /\ imageCall' = [at |-> "await", npc |-> appNpc, sent |-> ServiceCalled(aiClient),
                     result |-> Pending]
    /\ UNCHANGED <<aiClient, appNpc, npcProfile, imageUrl, appDna, isProfileLoading,
                   profileCall, codecVars, parserVars, statsVars>>

\* generateNpcImage(npc) has settled: handleGenerateImage from its await to its end
ImageSettled ==
    /\ imageCall.at = "await"
    /\ \E result \in ImageResults(aiClient, imageCall.npc) :
       \E v \in {RetryValues(result, imageUrl, appError)} :
          /\ imageUrl' = v.imageUrl
          /\ appError' = v.error
          /\ imageCall' = [imageCall EXCEPT !.at = "done", !.result = result]
    /\ isImageLoading' = FALSE
    /\ UNCHANGED <<aiClient, appNpc, npcProfile, appDna, isProfileLoading, profileCall,
                   codecVars, parserVars, statsVars>>

\* a click on the close button of the error banner
DismissError ==
    /\ appError # Null
    /\ appError' = Null
    /\ UNCHANGED <<aiClient, appNpc, npcProfile, imageUrl, appDna, isProfileLoading,
                   isImageLoading, profileCall, imageCall, codecVars, parserVars, statsVars>>

AppNext ==
    \/ HandleGenerateProfile
    \/ DecodeProfileSettles
    \/ PortraitSettles
    \/ ProfileSettled
    \/ HandleGenerateImage
    \/ ImageSettled
    \/ DismissError

AppStart == CodecIdle /\ ParserInit /\ StatsInit /\ AppInit

AppSpec == AppStart /\ [][AppNext]_vars

\* both service calls settle in the end, and the event loop then resumes the
\* handler that awaits them
AppLiveSpec ==
    /\ AppStart
    /\ [][AppNext]_vars
    /\ WF_vars(DecodeProfileSettles)
    /\ WF_vars(PortraitSettles)
    /\ WF_vars(ProfileSettled)

(***************************************************************************)
(* Properties of the DNA codec.                                            *)
(***************************************************************************)
Decoded == pc = "decoded"
DecodedValue == decodeResult.value
ReturnedRecord == Decoded /\ decodeResult.kind = "return" /\ DecodedValue.tag = "DecodedDna"
ReturnedNull == Decoded /\ decodeResult.kind = "return" /\ DecodedValue.tag = "null"

\* the name of the side of pair i that letter c stands for
SideName(i, c) == IF c = lncTraits[i][1] THEN lncTraitMap[i].name1 ELSE lncTraitMap[i].name2

\* C1: decoding a generated string returns a record that holds, position by
\* position, the score, the intensity and the chosen side's name of every paired
\* entry, the score and the name of every unpaired entry, and the two averages
\* written in the string.
C1_RoundTrip ==
    (Decoded /\ decodeArg = genDna) =>
        /\ ReturnedRecord
        /\ Len(DecodedValue.pairedTraits) = 20
        /\ Len(DecodedValue.unpairedTraits) = 20
        /\ \A i \in 1..20 :
             /\ DecodedValue.pairedTraits[i].score = Num(genLocals.lnc[i].lncScore)
             /\ DecodedValue.pairedTraits[i].intensity = Num(genLocals.lnc[i].intensity)
             /\ DecodedValue.pairedTraits[i].name = SideName(i, genLocals.lnc[i].chosenTrait)
             /\ DecodedValue.unpairedTraits[i].score = Num(genLocals.gne[i].gneScore)
             /\ DecodedValue.unpairedTraits[i].name = gneTraitMap[gneTraits[i]]
        /\ DecodedValue.alignment.lncScore = Num(genLocals.lncAverage)
        /\ DecodedValue.alignment.gneScore = Num(genLocals.gneAverage)
        /\ genDna[2] = DigitChars[genLocals.lncAverage + 1]
        /\ genDna[4] = DigitChars[genLocals.gneAverage + 1]

\* a generated string was decoded, with first sides and second sides chosen and
\* with the extreme scores and intensities in it
C1_Witness ==
    /\ Decoded /\ decodeArg = genDna /\ ReturnedRecord
    /\ \E i, j \in 1..20 :
         /\ genLocals.lnc[i].chosenTrait = lncTraits[i][1]
         /\ genLocals.lnc[j].chosenTrait = lncTraits[j][2]
    /\ \E i, j \in 1..20 : genLocals.lnc[i].lncScore = 1 /\ genLocals.lnc[j].lncScore = 9
    /\ \E i, j \in 1..20 : genLocals.lnc[i].intensity = 1 /\ genLocals.lnc[j].intensity = 5
    /\ \E i, j \in 1..20 : genLocals.gne[i].gneScore = 1 /\ genLocals.gne[j].gneScore = 9

\* index in a generated string of its i-th paired and of its i-th unpaired entry
PairedAt(g, i) == IndexOf(g, " ") + 1 + 4 * (i - 1)
UnpairedAt(g, i) == IndexOf(g, " ") + 1 + 4 * 20 + 2 + 3 * (i - 1)

\* C2: a generated string has exactly 20 paired entries <score 1-9><letter of
\* pair i><intensity 1-5> and exactly 20 unpaired entries <i-th letter><score
\* 1-9>, comma-joined, in table order, with " - " between the two lists.
C2_OutputShape ==
    pc # "start" =>
        /\ Len(genDna) = UnpairedAt(genDna, 20) + 1
        /\ \A i \in 1..20 :
             LET p == PairedAt(genDna, i)
                 u == UnpairedAt(genDna, i)
             IN  /\ genDna[p] \in {"1", "2", "3", "4", "5", "6", "7", "8", "9"}
                 /\ genDna[p + 1] \in {lncTraits[i][1], lncTraits[i][2]}
                 /\ genDna[p + 2] \in {"1", "2", "3", "4", "5"}
                 /\ i < 20 => genDna[p + 3] = ","
                 /\ genDna[u] = gneTraits[i]
                 /\ genDna[u + 1] \in {"1", "2", "3", "4", "5", "6", "7", "8", "9"}
                 /\ i < 20 => genDna[u + 2] = ","
        /\ SubSeq(genDna, PairedAt(genDna, 20) + 3, PairedAt(genDna, 20) + 5) = <<" ", "-", " ">>
        /\ Len(lncTraits) = 20 /\ Len(gneTraits) = 20

\* a generated string with the lowest and the highest score and intensity
C2_Witness ==
    /\ pc = "generated"
    /\ \E i, j \in 1..20 :
         /\ genDna[PairedAt(genDna, i)] = "1" /\ genDna[PairedAt(genDna, j)] = "9"
    /\ \E i, j \in 1..20 :
         /\ genDna[PairedAt(genDna, i) + 2] = "1" /\ genDna[PairedAt(genDna, j) + 2] = "5"
    /\ \E i, j \in 1..20 :
         /\ genDna[UnpairedAt(genDna, i) + 1] = "1" /\ genDna[UnpairedAt(genDna, j) + 1] = "9"

\* the sums of the scores written in a generated string
PairedSum(g) == SumSeq([i \in 1..20 |-> DigitValue(g[PairedAt(g, i)])])
UnpairedSum(g) == SumSeq([i \in 1..20 |-> DigitValue(g[UnpairedAt(g, i) + 1])])

\* a is sum / 20 rounded to the nearest integer, a half rounded up
IsRoundedMean(a, sum) == 20 * a - 10 <= sum /\ sum < 20 * a + 10

\* C3: the two averages of a generated string are the means of its 20 paired and
\* of its 20 unpaired scores, rounded with halves up, and are integers in 1..9.
C3_Averages ==
    pc # "start" =>
        /\ genDna[1] = "(" /\ genDna[3] = "/" /\ genDna[5] = ")"
        /\ IsDigit(genDna[2]) /\ IsDigit(genDna[4])
        /\ DigitValue(genDna[2]) \in 1..9
        /\ DigitValue(genDna[4]) \in 1..9
        /\ IsRoundedMean(DigitValue(genDna[2]), PairedSum(genDna))
        /\ IsRoundedMean(DigitValue(genDna[4]), UnpairedSum(genDna))

\* a generated string one of whose means is exactly a half above an integer
C3_Witness ==
    /\ pc = "generated"
    /\ \/ PairedSum(genDna) % 20 = 10
       \/ UnpairedSum(genDna) % 20 = 10
\* s[from .. to] is a non-empty run of digits
IsDigitRun(s, from, to) == from <= to /\ \A i \in from..to : IsDigit(s[i])

\* s holds, somewhere, "(" digits "/" digits ") ", and later on the same line " - "
HasOuterShape(s) ==
    \E p \in 1..Len(s) :
        /\ s[p] = "("
        /\ \E a \in (p + 2)..Len(s) :
             /\ s[a] = "/"
             /\ IsDigitRun(s, p + 1, a - 1)
             /\ \E b \in (a + 2)..(Len(s) - 1) :
                  /\ s[b] = ")" /\ s[b + 1] = " "
                  /\ IsDigitRun(s, a + 1, b - 1)
                  /\ \E k \in (b + 2)..(Len(s) - 2) :
                       /\ s[k] = " " /\ s[k + 1] = "-" /\ s[k + 2] = " "
                       /\ \A i \in (b + 2)..(k - 1) : s[i] \notin {"\n", "\r"}

\* C4: decodeDna returns null, and throws nothing, on a string that has no match
\* of the shape '(<digits>/<digits>) <paired list> - <unpaired list>'.
C4_NoShapeNull ==
    (Decoded /\ ~HasOuterShape(decodeArg)) => decodeResult = Return(Null)

\* a generated string damaged so that the shape is gone was passed to decodeDna
C4_Witness ==
    /\ ReturnedNull
    /\ ~HasOuterShape(decodeArg)
    /\ Len(decodeArg) >= Len(genDna)
    /\ \E i \in 1..Len(decodeArg) : decodeArg[i] \in {"\n", "\r"}

\* number of comma-separated entries of a list
EntryCount(list) == Cardinality({i \in 1..Len(list) : list[i] = ","}) + 1

\* the paired and the unpaired list of a string that has the outer shape
PairedList(s) == DnaMatch(s).lncPart
UnpairedList(s) == DnaMatch(s).gnePart

\* C5: a decodeDna call never throws to its caller; it returns null or a record
\* with the averages and one entry for every entry of both lists; if the body
\* raises an exception (as it does for a paired list of more than 20 entries)
\* the call returns null.
C5_AllOrNothing ==
    Decoded =>
        /\ decodeResult.kind = "return"
        /\ DecodedValue.tag \in {"null", "DecodedDna"}
        /\ DecodedValue.tag = "DecodedDna" =>
             /\ DOMAIN DecodedValue = {"tag", "alignment", "pairedTraits", "unpairedTraits"}
             /\ Len(DecodedValue.pairedTraits) = EntryCount(PairedList(decodeArg))
             /\ Len(DecodedValue.unpairedTraits) = EntryCount(UnpairedList(decodeArg))
        /\ DecodeBody(decodeArg).kind = "throw" => DecodedValue = Null
        /\ (HasOuterShape(decodeArg) /\ EntryCount(PairedList(decodeArg)) > 20) =>
             /\ DecodeBody(decodeArg).kind = "throw"
             /\ DecodedValue = Null

\* a string with the outer shape and 21 paired entries made the body throw, and
\* the call returned null
C5_Witness ==
    /\ Decoded
    /\ HasOuterShape(decodeArg)
    /\ EntryCount(PairedList(decodeArg)) = 21
    /\ DecodeBody(decodeArg).kind = "throw"
    /\ decodeResult = Return(Null)

\* s is "(" digits "/" digits ") ", 20 entries <digit 1-9><letter><digit 1-5>,
\* " - " and 20 entries <letter><digit 1-9>, and nothing else
Letters ==
    { "A", "B", "C", "D", "E", "F", "G", "H", "I", "J", "K", "L", "M",
      "N", "O", "P", "Q", "R", "S", "T", "U", "V", "W", "X", "Y", "Z" }

IsDnaFormat(s) ==
    \E a \in 3..Len(s) : \E b \in (a + 2)..Len(s) :
        /\ s[1] = "(" /\ s[a] = "/" /\ s[b] = ")"
        /\ IsDigitRun(s, 2, a - 1) /\ IsDigitRun(s, a + 1, b - 1)
        /\ Len(s) = b + 1 + 79 + 3 + 59
        /\ s[b + 1] = " "
        /\ \A i \in 1..20 :
             LET q == b + 2 + 4 * (i - 1)
             IN  /\ s[q] \in {"1", "2", "3", "4", "5", "6", "7", "8", "9"}
                 /\ s[q + 1] \in Letters
                 /\ s[q + 2] \in {"1", "2", "3", "4", "5"}
                 /\ i < 20 => s[q + 3] = ","
        /\ SubSeq(s, b + 81, b + 83) = <<" ", "-", " ">>
        /\ \A i \in 1..20 :
             LET u == b + 84 + 3 * (i - 1)
             IN  /\ s[u] \in Letters
                 /\ s[u + 1] \in {"1", "2", "3", "4", "5", "6", "7", "8", "9"}
                 /\ i < 20 => s[u + 2] = ","

Bucket(n, labels) ==
    CASE n >= 7 -> labels[1]
      [] n >= 4 /\ n <= 6 -> labels[2]
      [] n <= 3 -> labels[3]

InRange(score) == ~score.nan /\ score.val \in 1..9

\* the bucketing of every score in 1..9 of a decoded record, with low as the
\* label of the low bucket of an unpaired entry's strength
BucketsHold(low) ==
    ReturnedRecord =>
        /\ InRange(DecodedValue.alignment.lncScore) =>
             DecodedValue.alignment.lnc =
                 Bucket(DecodedValue.alignment.lncScore.val, <<"Lawful", "Neutral", "Chaotic">>)
        /\ InRange(DecodedValue.alignment.gneScore) =>
             DecodedValue.alignment.gne =
                 Bucket(DecodedValue.alignment.gneScore.val, <<"Good", "Neutral", "Evil">>)
        /\ \A i \in 1..Len(DecodedValue.pairedTraits) :
             InRange(DecodedValue.pairedTraits[i].score) =>
                 DecodedValue.pairedTraits[i].influence =
                     Bucket(DecodedValue.pairedTraits[i].score.val, <<"Lawful", "Neutral", "Chaotic">>)
        /\ \A i \in 1..Len(DecodedValue.unpairedTraits) :
             InRange(DecodedValue.unpairedTraits[i].score) =>
                 DecodedValue.unpairedTraits[i].strength =
                     Bucket(DecodedValue.unpairedTraits[i].score.val, <<"Strong", "Moderate", low>>)

\* C7 as stated: the three labels of an unpaired entry's strength are Strong,
\* Moderate and Weak.
C7_BucketsWeak == BucketsHold("Weak")

\* C7, amended: scores of 7 and more get the high label, 4 to 6 the mid label, 3
\* and less the low label, for the two averages (Lawful/Neutral/Chaotic and
\* Good/Neutral/Evil), for every paired entry's influence at every position
\* (Lawful/Neutral/Chaotic) and for every unpaired entry's strength, whose
\* labels are Strong, Moderate and Weak/Opposite.
C7_Buckets == BucketsHold("Weak/Opposite")

\* a decoded record with the boundary scores 7, 6, 4 and 3 among its paired and
\* among its unpaired entries
C7_Witness ==
    /\ ReturnedRecord
    /\ \A n \in {3, 4, 6, 7} :
         /\ \E i \in 1..Len(DecodedValue.pairedTraits) :
              DecodedValue.pairedTraits[i].score = Num(n)
         /\ \E i \in 1..Len(DecodedValue.unpairedTraits) :
              DecodedValue.unpairedTraits[i].score = Num(n)

\* the i-th paired entry of a string that has the outer shape
PairedEntry(s, i) == Split(PairedList(s), ",")[i]

\* C8: the entry at paired position i decodes to the name of its letter's side
\* in pair i, whatever that letter means at other positions: B is Brave at
\* position 1 and Blunt at 13, C is Cowardly at 1, Calm at 15 and Confrontational
\* at 20; and '(5/5) 5B3,4O2 - H5,C5' decodes to Brave with score 5 and
\* intensity 3 at paired position 1 and to Honest with strength Moderate at
\* unpaired position 1.
C8_PositionOverLetter ==
    ReturnedRecord =>
        /\ \A i \in 1..Len(DecodedValue.pairedTraits) :
             LET e == PairedEntry(decodeArg, i)
                 name == DecodedValue.pairedTraits[i].name
             IN  Len(e) >= 2 =>
                   /\ e[2] = lncTraits[i][1] => name = lncTraitMap[i].name1
                   /\ e[2] = lncTraits[i][2] => name = lncTraitMap[i].name2
                   /\ (i = 1 /\ e[2] = "B") => name = "Brave"
                   /\ (i = 13 /\ e[2] = "B") => name = "Blunt"
                   /\ (i = 1 /\ e[2] = "C") => name = "Cowardly"
                   /\ (i = 15 /\ e[2] = "C") => name = "Calm"
                   /\ (i = 20 /\ e[2] = "C") => name = "Confrontational"
        /\ decodeArg = ToyDna =>
             /\ DecodedValue.pairedTraits[1].name = "Brave"
             /\ DecodedValue.pairedTraits[1].score = Num(5)
             /\ DecodedValue.pairedTraits[1].intensity = Num(3)
             /\ DecodedValue.unpairedTraits[1].name = "Honest"
             /\ DecodedValue.unpairedTraits[1].strength = "Moderate"

\* a decoded string with B at positions 1 and 13 and C at positions 15 and 20
C8_Witness ==
    /\ ReturnedRecord
    /\ Len(DecodedValue.pairedTraits) = 20
    /\ PairedEntry(decodeArg, 1)[2] = "B" /\ DecodedValue.pairedTraits[1].name = "Brave"
    /\ PairedEntry(decodeArg, 13)[2] = "B" /\ DecodedValue.pairedTraits[13].name = "Blunt"
    /\ PairedEntry(decodeArg, 15)[2] = "C" /\ DecodedValue.pairedTraits[15].name = "Calm"
    /\ PairedEntry(decodeArg, 20)[2] = "C"
    /\ DecodedValue.pairedTraits[20].name = "Confrontational"

\* the elements of a sequence
Range(f) == {f[i] : i \in DOMAIN f}

\* C9: the encoder's paired table equals the decoder's key table entry by entry,
\* the decoder has one name pair for each of the 20 positions, no pair has two
\* equal letters, and the encoder's 20 unpaired letters are distinct keys of
\* the decoder's unpaired name map; so every letter the encoder writes at a
\* position is one of the decoder's keys of that position.
C9_TablesAgree ==
    /\ Len(lncTraits) = 20 /\ Len(lncTraitKeys) = 20 /\ Len(lncTraitMap) = 20
    /\ \A i \in 1..20 :
         /\ lncTraits[i] = lncTraitKeys[i]
         /\ lncTraits[i][1] # lncTraits[i][2]
         /\ DOMAIN lncTraitMap[i] = {"name1", "name2"}
    /\ Len(gneTraits) = 20
    /\ Cardinality(Range(gneTraits)) = 20
    /\ Range(gneTraits) \subseteq DOMAIN gneTraitMap
    /\ pc # "start" =>
         \A i \in 1..20 :
             /\ genLocals.lnc[i].chosenTrait \in {lncTraitKeys[i][1], lncTraitKeys[i][2]}
             /\ genLocals.gne[i].trait \in DOMAIN gneTraitMap

\* both tables were used: a string generated from the encoder's tables was
\* decoded with the decoder's, at all 20 paired and 20 unpaired positions
C9_Witness ==
    /\ Decoded /\ decodeArg = genDna
    /\ pc = "decoded" /\ DecodedValue.tag = "DecodedDna"
    /\ Len(DecodedValue.pairedTraits) = Len(lncTraits)
    /\ Len(DecodedValue.unpairedTraits) = Len(gneTraits)

\* the text of the document between the header of position j and the line
\* break that starts the next header line (or the end of the document)
SectionText(parts, j) ==
    StyleAt(parts, j).trailer \o <<"\n">> \o SectionBody(parts.body, parts.order[j])

\* the order of the sections differs from the order of allHeaders
Scrambled(parts) == \E j \in 1..Len(parts.order) : parts.order[j] # j

\* C10: when each of the 11 headers heads one line of the document, in any
\* order and in any header style (with or without '#' markers, with or without
\* '**' markers), the parser returns a content object in which the field of each
\* header is exactly the trimmed text between the end of that header's match and
\* the start of the next header in document order, or the end of the text for
\* the last header
C10_SectionSlicing ==
    profile # <<>> =>
        /\ parsedProfile.tag = "content"
        /\ \A j \in 1..Len(profileParts.order) :
              parsedProfile[sectionFields[profileParts.order[j]]]
                  = Str(Trim(SectionText(profileParts, j)))

\* a document with a card preamble and scrambled sections is parsed: the last
\* section is not the last title, a section under a '**Title:**' header keeps
\* the ':**' the match leaves, and all 11 fields are non-empty strings
C10_Witness ==
    /\ profile # <<>>
    /\ profileParts.preamble = "card"
    /\ Scrambled(profileParts)
    /\ profileParts.order[Len(profileParts.order)] # Len(allHeaders)
    /\ parsedProfile.tag = "content"
    /\ \E j \in 1..Len(profileParts.order) :
          /\ StyleAt(profileParts, j).trailer = <<":", "*", "*">>
          /\ HasAt(parsedProfile[sectionFields[profileParts.order[j]]].str, 1, <<":", "*", "*">>)
    /\ \A k \in 1..Len(sectionFields) :
          /\ ~parsedProfile[sectionFields[k]].undef
          /\ Len(parsedProfile[sectionFields[k]].str) > 0
          /\ parsedProfile[sectionFields[k]].str = Trim(parsedProfile[sectionFields[k]].str)

\* the value of a section holds no text: it is undefined or the empty string
SectionEmpty(v) == v.undef \/ v.str = <<>>

\* C11: for a non-empty text that holds none of the 11 section headers the
\* parser does not throw and returns the content object, not the error object,
\* and every section field of it holds no text
C11_NoHeadersDegrade ==
    (profile # <<>> /\ profileParts.order = <<>>) =>
        /\ parsedProfile.tag = "content"
        /\ \A k \in 1..Len(sectionFields) : SectionEmpty(parsedProfile[sectionFields[k]])

\* a text of one line without any header is parsed: the name falls back to the
\* name of the character and the sections are left without text
C11_Witness ==
    /\ profile # <<>>
    /\ profileParts.order = <<>>
    /\ profileParts.preamble = "intro"
    /\ parsedProfile.tag = "content"
    /\ parsedProfile.name = Str(DefaultNpcName)
    /\ parsedProfile.backstory.undef
    /\ parsedProfile.hooks.undef

\* the number of fields the text of parts fills with more than 10 characters:
\* the alignment of the card preamble ("Lawful Good") and each section whose
\* trimmed text is that long
LongFieldCount(parts) ==
    Cardinality({j \in 1..Len(parts.order) : Len(Trim(SectionText(parts, j))) > 10})
        + (IF parts.preamble = "card" THEN 1 ELSE 0)

\* C12: the parser notes that too little was parsed exactly when fewer than 3
\* fields hold a string of more than 10 characters, and it then still returns
\* the content object with the sections it found, never the error object and
\* never null
C12_PartialReturned ==
    profile # <<>> =>
        /\ parseWarned = (LongFieldCount(profileParts) < 3)
        /\ LongFieldCount(profileParts) < 3 =>
              /\ parsedProfile # Null
              /\ parsedProfile.tag = "content"
              /\ TooLittleParsed(parsedProfile)
              /\ \A j \in 1..Len(profileParts.order) :
                    parsedProfile[sectionFields[profileParts.order[j]]]
                        = Str(Trim(SectionText(profileParts, j)))

\* a text with two ruled sections and no long field in its preamble is parsed:
\* two fields are long, the note is made and both sections are returned
C12_Witness ==
    /\ profile # <<>>
    /\ parseWarned
    /\ profileParts.body = "ruled"
    /\ Len(profileParts.order) = 2
    /\ parsedProfile.tag = "content"
    /\ Cardinality({f \in ParsedFields :
                       ~parsedProfile[f].undef /\ Len(parsedProfile[f].str) > 10}) = 2

(***************************************************************************)
(* Properties of the stat block.                                           *)
(***************************************************************************)
\* npc with every field but race and profession replaced by a fixed value
RaceAndProfessionOnly(npc) ==
    [ name |-> <<>>, race |-> npc.race, intelligence |-> <<>>,
      profession |-> npc.profession, gold |-> 0 ]

\* C14: the stat block of an npc is the stat block of the record that has the
\* same race and the same profession and fixed values in every other field, so
\* two npcs with the same race and profession get identical stat blocks
\* whatever their other fields are.
C14_SameRaceAndProfession ==
    cardNpc # Null => stats = generateStats(RaceAndProfessionOnly(cardNpc))

\* a stat block was computed for an npc whose other fields are not the fixed ones
C14_Witness ==
    /\ cardNpc # Null
    /\ cardNpc.gold > 0
    /\ cardNpc.name # <<>>
    /\ cardNpc.intelligence # <<>>
    /\ stats # Null
    /\ stats.actions # <<>>

\* the branch of the profession chain the words of a profession select
WordGroup(k) == IF k = 0 THEN 0 ELSE ProfessionWords[k].group
FirstGroup(a, b) == IF a = 0 THEN b ELSE IF b = 0 THEN a ELSE IF a < b THEN a ELSE b
ExpectedGroup(parts) == FirstGroup(WordGroup(parts.first), WordGroup(parts.second))

GroupTemplate(g) ==
    CASE g = 1 -> GuardTemplate
      [] g = 2 -> SageTemplate
      [] g = 3 -> ThiefTemplate
      [] g = 4 -> FarmerTemplate
      [] g = 5 -> SmithTemplate
      [] g = 6 -> NobleTemplate

GroupBonus(g, scores) ==
    CASE g = 1 -> AddScores(scores, "str", 2, "con", 1)
      [] g = 2 -> AddScores(scores, "int", 2, "wis", 1)
      [] g = 3 -> AddScores(scores, "dex", 2, "cha", 1)
      [] g = 4 -> AddScores(scores, "str", 2, "con", 1)
      [] g = 5 -> AddScores(scores, "str", 2, "con", 1)
      [] g = 6 -> AddScores(scores, "cha", 2, "int", 1)

\* C15: the first group, in the order guard, sage, thief, farmer, smith, noble,
\* that has a keyword in the profession supplies the template and the one
\* ability bonus added to the race's scores; a profession with no keyword gets
\* AC 10, 1d8, no skills, a Club and the race's scores unchanged.
C15_FirstGroupWins ==
    cardNpc # Null =>
        IF ExpectedGroup(npcParts) = 0
        THEN /\ statsLocals.template.ac = 10
             /\ statsLocals.template.hpDice = <<1, 8>>
             /\ statsLocals.template.skills = <<>>
             /\ statsLocals.template.weapons = <<Club>>
             /\ statsLocals.scores = RaceLocals(cardNpc.race).scores
             /\ stats.armorClass = 10
             /\ stats.abilityScores = RaceLocals(cardNpc.race).scores
        ELSE /\ statsLocals.template = GroupTemplate(ExpectedGroup(npcParts))
             /\ statsLocals.scores =
                    GroupBonus(ExpectedGroup(npcParts), RaceLocals(cardNpc.race).scores)
             /\ stats.armorClass = GroupTemplate(ExpectedGroup(npcParts)).ac
             /\ stats.abilityScores = statsLocals.scores

\* a profession with keywords of two groups, the later group written first
C15_Witness ==
    /\ cardNpc # Null
    /\ npcParts.second # 0
    /\ WordGroup(npcParts.first) > WordGroup(npcParts.second)
    /\ WordGroup(npcParts.second) > 0
    /\ statsLocals.template = GroupTemplate(WordGroup(npcParts.second))

\* a profession with no keyword got the default template
C15_DefaultWitness ==
    /\ cardNpc # Null
    /\ ExpectedGroup(npcParts) = 0
    /\ stats.armorClass = 10

\* the hit dice of the selected template
HitDieCount == statsLocals.template.hpDice[1]
HitDieSize == statsLocals.template.hpDice[2]
\* floor((CON - 10) / 2) for the final Constitution score
ConModifier == (stats.abilityScores.con - 10) \div 2
\* max(1, floor((size + 1) / 2 * count + modifier * count))
ExpectedHp ==
    IF (((HitDieSize + 1) * HitDieCount) \div 2) + (ConModifier * HitDieCount) < 1 THEN 1
    ELSE (((HitDieSize + 1) * HitDieCount) \div 2) + (ConModifier * HitDieCount)
AbsoluteValue(n) == IF n < 0 THEN 0 - n ELSE n

\* C16: hp is max(1, floor(average roll x count + CON modifier x count)) with
\* the average roll (die size + 1)/2 and the modifier floor((CON - 10)/2), and
\* the hit-points string is that number followed by "(<count>d<size> +/-
\* |count x modifier|)".
C16_HitPoints ==
    cardNpc # Null =>
        /\ statsLocals.hp = ExpectedHp
        /\ stats.hitPoints =

              NumberToString(ExpectedHp) \o <<" ", "(">> \o NumberToString(HitDieCount) \o <<
                                                                                             "d">>
                  \o NumberToString(HitDieSize)

                  \o (IF ConModifier >= 0 THEN <<" ", "+", " ">> ELSE <<" ", "-", " ">>)
                  \o NumberToString(AbsoluteValue(HitDieCount * ConModifier)) \o <<")">>

\* three hit dice and a Constitution modifier of +1
C16_Witness ==
    /\ cardNpc # Null
    /\ HitDieCount = 3
    /\ ConModifier = 1
    /\ statsLocals.hp = 16
    /\ stats.hitPoints = <<"1", "6", " ", "(", "3", "d", "8", " ", "+", " ", "3", ")">>

\* C17: the challenge is '0 (10 XP)' for hp <= 6, '1/8 (25 XP)' for hp from 7
\* to 35 and '1/4 (50 XP)' for hp > 35, for the hp of the same call.
C17_ChallengeBuckets ==
    cardNpc # Null =>
        stats.challenge =
            (IF statsLocals.hp <= 6 THEN <<"0", " ", "(", "1", "0", " ", "X", "P", ")">>
             ELSE IF statsLocals.hp <= 35 THEN <<"1", "/", "8", " ", "(", "2", "5", " ",
                                                 "X", "P", ")">>
             ELSE <<"1", "/", "4", " ", "(", "5", "0", " ", "X", "P", ")">>)

\* an npc in the first bucket's neighbour: hp 9 and challenge 1/8
C17_Witness ==
    /\ cardNpc # Null
    /\ statsLocals.hp = 9
    /\ stats.challenge = <<"1", "/", "8", " ", "(", "2", "5", " ", "X", "P", ")">>

\* an npc with hp 5 and challenge 0
C17_LowWitness ==
    /\ cardNpc # Null
    /\ statsLocals.hp = 5
    /\ stats.challenge = <<"0", " ", "(", "1", "0", " ", "X", "P", ")">>

\* the weapon table as numbers: ability, largest roll of the die, largest roll
\* of the versatile die (0 for none), and whether the weapon has a range
WeaponFacts(w) ==
    CASE w = Club -> [ability |-> "str", die |-> 4, versatile |-> 0, ranged |-> FALSE]
      [] w = Dagger -> [ability |-> "dex", die |-> 4, versatile |-> 0, ranged |-> TRUE]
      [] w = LightHammer -> [ability |-> "str", die |-> 4, versatile |-> 0, ranged |-> TRUE]
      [] w = Quarterstaff -> [ability |-> "str", die |-> 6, versatile |-> 8, ranged |-> FALSE]
      [] w = Sickle -> [ability |-> "str", die |-> 4, versatile |-> 0, ranged |-> FALSE]
      [] w = Spear -> [ability |-> "str", die |-> 6, versatile |-> 8, ranged |-> TRUE]
      [] w = Longsword -> [ability |-> "str", die |-> 8, versatile |-> 10, ranged |-> FALSE]
      [] w = Shortsword -> [ability |-> "dex", die |-> 6, versatile |-> 0, ranged |-> FALSE]
      [] w = Rapier -> [ability |-> "dex", die |-> 8, versatile |-> 0, ranged |-> FALSE]

\* floor((score - 10) / 2) of the final score of the weapon's ability
WeaponModifier(w) == (stats.abilityScores[WeaponFacts(w).ability] - 10) \div 2

\* "<floor(die/2) + 1 + mod> (1d<die> +/- |mod|)"
ExpectedDamage(die, mod) ==
    NumberToString((die \div 2) + 1 + mod) \o <<" ", "(", "1", "d">> \o NumberToString(die)

        \o (IF mod >= 0 THEN <<" ", "+", " ">> ELSE <<" ", "-", " ">>)
        \o NumberToString(AbsoluteValue(mod)) \o <<")">>

ExpectedToHit(mod) ==
    IF mod + 2 >= 0 THEN <<"+">> \o NumberToString(mod + 2) ELSE NumberToString(mod + 2)

ExpectedDescription(facts, mod) ==
    (IF facts.ranged
     THEN <<"M", "e", "l", "e", "e", " ", "o", "r", " ", "R", "a", "n", "g", "e", "d", " ",
            "W", "e", "a", "p", "o", "n", " ", "A", "t", "t", "a", "c", "k", ":", " ">> \o ExpectedToHit(mod)
              \o <<" ", "t", "o", " ", "h", "i", "t", ",", " ", "r", "e", "a", "c", "h",
                   " ", "5", " ", "f", "t", ".", " ", "o", "r", " ", "r", "a", "n", "g",
                   "e", " ", "2", "0", "/", "6", "0", " ", "f", "t", ".", ",", " ", "o",
                   "n", "e", " ", "t", "a", "r", "g", "e", "t", ".", " ", "H", "i", "t",
                   ":", " ">>
     ELSE <<"M", "e", "l", "e", "e", " ", "W", "e", "a", "p", "o", "n", " ", "A", "t", "t",
            "a", "c", "k", ":", " ">> \o ExpectedToHit(mod)
              \o <<" ", "t", "o", " ", "h", "i", "t", ",", " ", "r", "e", "a", "c", "h",
                   " ", "5", " ", "f", "t", ".", ",", " ", "o", "n", "e", " ", "t", "a",
                   "r", "g", "e", "t", ".", " ", "H", "i", "t", ":", " ">>)
        \o ExpectedDamage(facts.die, mod) \o <<" ", "p", "i", "e", "r", "c", "i", "n", "g",
                                               " ", "d", "a", "m", "a", "g", "e", ".">>
        \o (IF facts.versatile = 0 THEN <<>>
            ELSE <<" ", "o", "r", " ">> \o ExpectedDamage(facts.versatile, mod)
                     \o <<" ", "d", "a", "m", "a", "g", "e", " ", "i", "f", " ", "u", "s",
                          "e", "d", " ", "w", "i", "t", "h", " ", "t", "w", "o", " ", "h",
                          "a", "n", "d", "s", ".">>)

\* C18: the actions are one per weapon of the selected template, in template
\* order and under the weapon's name; the to-hit bonus is the modifier of the
\* weapon's ability plus 2, the damage floor(die/2) + 1 + modifier, with a
\* two-handed clause from the versatile die and the ranged wording exactly for
\* the weapons with a range.
C18_WeaponActions ==
    cardNpc # Null =>
        /\ Len(stats.actions) = Len(statsLocals.template.weapons)
        /\ \A i \in 1..Len(stats.actions) :
              /\ stats.actions[i].name = statsLocals.template.weapons[i]
              /\ stats.actions[i].description =
                    ExpectedDescription(WeaponFacts(statsLocals.template.weapons[i]),
                                        WeaponModifier(statsLocals.template.weapons[i]))

\* a guard with Strength 14: a ranged versatile Spear and a versatile Longsword
C18_Witness ==
    /\ cardNpc # Null
    /\ statsLocals.template.weapons = <<Spear, Longsword>>
    /\ stats.abilityScores.str = 14
    /\ Len(stats.actions) = 2
    /\ stats.actions[1].description =
          <<"M", "e", "l", "e", "e", " ", "o", "r", " ", "R", "a", "n", "g", "e", "d", " ",
            "W", "e", "a", "p", "o", "n", " ", "A", "t", "t", "a", "c", "k", ":", " ", "+",
            "4", " ", "t", "o", " ", "h", "i", "t", ",", " ", "r", "e", "a", "c", "h", " ",
            "5", " ", "f", "t", ".", " ", "o", "r", " ", "r", "a", "n", "g", "e", " ", "2",
            "0", "/", "6", "0", " ", "f", "t", ".", ",", " ", "o", "n", "e", " ", "t", "a",
            "r", "g", "e", "t", ".", " ", "H", "i", "t", ":", " ", "6", " ", "(", "1", "d",
            "6", " ", "+", " ", "2", ")", " ", "p", "i", "e", "r", "c", "i", "n", "g", " ",
            "d", "a", "m", "a", "g", "e", ".", " ", "o", "r", " ", "7", " ", "(", "1", "d",
            "8", " ", "+", " ", "2", ")", " ", "d", "a", "m", "a", "g", "e", " ", "i", "f",
            " ", "u", "s", "e", "d", " ", "w", "i", "t", "h", " ", "t", "w", "o", " ", "h",
            "a", "n", "d", "s", ".">>
    /\ stats.actions[2].name = Longsword

(***************************************************************************)
(* Properties of App.                                                      *)
(***************************************************************************)
\* the step in which handleGenerateProfile runs from its await to its end
ProfileCycleEnds == profileCall.at = "await" /\ profileCall'.at = "done"

\* C19: when the profile was fulfilled and the portrait rejected, the call
\* ends with npc, dna and npcProfile set to the character and the DNA string
\* generated in this call and to the text the profile call returned, imageUrl
\* null, isProfileLoading false and error the portrait message of App.
C19_PartialSuccess ==
    [][ ( /\ ProfileCycleEnds
          /\ profileCall'.profileResult.status = "fulfilled"
          /\ profileCall'.imageResult.status = "rejected" )
        => ( /\ appNpc' = profileCall.baseNpc
             /\ appDna' = Str(genDna)
             /\ appDna' = Str(profileCall.personalityDna)
             /\ npcProfile' = Str(profileCall'.profileResult.value)
             /\ imageUrl' = Null
             /\ isProfileLoading' = FALSE
             /\ appError' = Str(PortraitFailedMessage) ) ]_vars

\* a call ended with a profile and without a portrait, and nothing was clicked since
C19_Witness ==
    /\ profileCall.at = "done"
    /\ profileCall.profileResult.status = "fulfilled"
    /\ profileCall.imageResult.status = "rejected"
    /\ appNpc = profileCall.baseNpc
    /\ npcProfile = Str(profileCall.profileResult.value)
    /\ appDna = Str(genDna)
    /\ imageUrl = Null
    /\ ~isProfileLoading
    /\ appError = Str(PortraitFailedMessage)

\* C20: when the profile was rejected, with the portrait fulfilled or rejected,
\* the call ends with npc, npcProfile, imageUrl and dna null, isProfileLoading
\* false and error the message of the profile's rejection.
C20_EssentialFailure ==
    [][ ( /\ ProfileCycleEnds
          /\ profileCall'.profileResult.status = "rejected" )
        => ( /\ appNpc' = Null
             /\ npcProfile' = Null
             /\ imageUrl' = Null
             /\ appDna' = Null
             /\ isProfileLoading' = FALSE
             /\ appError' = Str(profileCall'.profileResult.reason.message)
             /\ appError' \in {Str(ProfileFailedMessage), Str(ProfileKeyMessage)} ) ]_vars

\* a call ended without a profile although the portrait was made
C20_Witness ==
    /\ profileCall.at = "done"
    /\ profileCall.profileResult.status = "rejected"
    /\ profileCall.imageResult.status = "fulfilled"
    /\ appNpc = Null
    /\ npcProfile = Null
    /\ imageUrl = Null
    /\ appDna = Null
    /\ ~isProfileLoading
    /\ appError = Str(ProfileFailedMessage)

\* C21: without a client, the calls of a cycle never reach the service and
\* reject with their 'API Key not configured' messages, no character is ever
\* displayed, and a cycle ends with the profile's message in error.
C21_ConfigurationError ==
    /\ [](~aiClient =>
            /\ appNpc = Null /\ npcProfile = Null /\ imageUrl = Null /\ appDna = Null
            /\ profileCall.at # "idle" =>
                  /\ ~profileCall.profileSent
                  /\ ~profileCall.imageSent
                  /\ profileCall.profileResult \in {Pending, Rejected(Error(ProfileKeyMessage))}
                  /\ profileCall.imageResult \in {Pending, Rejected(Error(ImageKeyMessage))})
    /\ [][ (~aiClient /\ ProfileCycleEnds)
           => ( /\ appError' = Str(ProfileKeyMessage)
                /\ appNpc' = Null /\ npcProfile' = Null /\ imageUrl' = Null /\ appDna' = Null
                /\ ~isProfileLoading' ) ]_vars

\* a cycle without a client has ended
C21_Witness ==
    /\ ~aiClient
    /\ profileCall.at = "done"
    /\ profileCall.profileResult = Rejected(Error(ProfileKeyMessage))
    /\ profileCall.imageResult = Rejected(Error(ImageKeyMessage))
    /\ appError = Str(ProfileKeyMessage)
    /\ appNpc = Null

\* a step of the call of handleGenerateProfile that is in flight
ProfileCallStep == profileCall.at = "await" /\ profileCall' # profileCall
OnePending == profileCall.profileResult = Pending \/ profileCall.imageResult = Pending

\* C22: a cycle starts with both promises pending; while one is pending it can
\* settle, fulfilled or rejected, whatever the other did; and while one is
\* pending the call assigns nothing to npc, dna, npcProfile or imageUrl and
\* stays at its await, so npc, dna and npcProfile stay null.
C22_BothSettleFirst ==
    /\ [][ (profileCall.at # "await" /\ profileCall'.at = "await")
           => (profileCall'.profileResult = Pending /\ profileCall'.imageResult = Pending)
       ]_vars
    /\ []((profileCall.at = "await" /\ profileCall.imageResult = Pending) =>
             /\ ENABLED (PortraitSettles /\ profileCall'.imageResult.status = "rejected")
             /\ aiClient =>
                   ENABLED (PortraitSettles /\ profileCall'.imageResult.status = "fulfilled"))
    /\ []((profileCall.at = "await" /\ profileCall.profileResult = Pending) =>
             /\ ENABLED (DecodeProfileSettles /\ profileCall'.profileResult.status = "rejected")
             /\ aiClient =>
                   ENABLED (DecodeProfileSettles
                               /\ profileCall'.profileResult.status = "fulfilled"))
    /\ [](profileCall.at = "await" => (appNpc = Null /\ appDna = Null /\ npcProfile = Null))
    /\ [][ (ProfileCallStep /\ OnePending)
           => (profileCall'.at = "await" /\ UNCHANGED <<appNpc, appDna, npcProfile, imageUrl>>)
       ]_vars

\* the portrait was made while the profile is still pending
C22_Witness ==
    /\ profileCall.at = "await"
    /\ profileCall.imageResult.status = "fulfilled"
    /\ profileCall.profileResult = Pending
    /\ appNpc = Null
    /\ imageUrl = Null

\* the profile was rejected while the portrait is still pending
C22_ProfileFirstWitness ==
    /\ profileCall.at = "await"
    /\ profileCall.profileResult.status = "rejected"
    /\ profileCall.imageResult = Pending
    /\ isProfileLoading

(***************************************************************************)
(* Properties of the portrait retry.                                       *)
(***************************************************************************)
\* a step of a handleGenerateImage call
ImageCallStep == imageCall' # imageCall
ImageCallStarts == ImageCallStep /\ imageCall'.at = "await"
ImageCallEnds == imageCall.at = "await" /\ imageCall'.at = "done"

\* C24: handleGenerateImage cannot run while npc is null and never changes npc,
\* npcProfile or dna; it first sets isImageLoading and clears error, leaving
\* imageUrl as it is; when generateNpcImage(npc) settles it sets imageUrl to the
\* portrait made for that npc on success, and on failure sets imageUrl to null
\* and error to the message of the failure; it ends with isImageLoading false.
C24_ImageRetry ==
    /\ [](appNpc = Null => ~ENABLED HandleGenerateImage)
    /\ [][ImageCallStep => UNCHANGED <<appNpc, npcProfile, appDna>>]_vars
    /\ [][ImageCallStarts =>
             /\ appNpc # Null
             /\ imageCall'.npc = appNpc
             /\ imageCall'.result = Pending
             /\ isImageLoading'
             /\ appError' = Null
             /\ UNCHANGED imageUrl
       ]_vars
    /\ [][ImageCallStep => (ImageCallStarts \/ ImageCallEnds)]_vars
    /\ [][ImageCallEnds =>
             /\ ~isImageLoading'
             /\ imageCall'.npc = imageCall.npc
             /\ imageCall'.result.status \in {"fulfilled", "rejected"}
             /\ imageCall'.result.status = "fulfilled" =>
                   /\ imageUrl' = Str(imageCall'.result.value)
                   /\ imageCall'.result.value.prompt = ImagePrompt(imageCall.npc)
                   /\ UNCHANGED appError
             /\ imageCall'.result.status = "rejected" =>
                   /\ imageUrl' = Null
                   /\ appError' = Str(imageCall'.result.reason.message)
       ]_vars

\* a portrait was shown and a retry for the same card has failed
C24_Witness ==
    /\ imageCall.at = "done"
    /\ imageCall.result.status = "rejected"
    /\ profileCall.at = "done"
    /\ profileCall.imageResult.status = "fulfilled"
    /\ appNpc = imageCall.npc
    /\ imageUrl = Null
    /\ appError = Str(ImageFailedMessage)
    /\ ~isImageLoading

\* the first portrait failed and a retry has made one
C24_SuccessWitness ==
    /\ imageCall.at = "done"
    /\ imageCall.result.status = "fulfilled"
    /\ profileCall.at = "done"
    /\ profileCall.imageResult.status = "rejected"
    /\ appNpc = imageCall.npc
    /\ imageUrl = Str(imageCall.result.value)
    /\ ~isImageLoading

\* C25: the portrait shown is never stale: imageUrl is null whenever npc is
\* null, and a non-null imageUrl is a portrait generateNpcImage made for the npc
\* now displayed.
C25_NoStalePortrait ==
    imageUrl # Null =>
        /\ appNpc # Null
        /\ imageUrl.str.prompt = ImagePrompt(appNpc)

(***************************************************************************)
(* Properties of the displayed character.                                  *)
(***************************************************************************)
CharacterCleared == appNpc = Null /\ appDna = Null /\ npcProfile = Null
CharacterAssigned == appNpc # Null /\ appDna # Null /\ npcProfile # Null

\* C26: npc, dna and npcProfile are all null or all assigned; when assigned,
\* they are the character and the DNA string of the last handleGenerateProfile
\* call, which passed both to decodeDnaProfile, and the text that call returned.
C26_SameCycle ==
    /\ CharacterCleared \/ CharacterAssigned
    /\ CharacterAssigned =>
          /\ profileCall.at = "done"
          /\ profileCall.profileResult.status = "fulfilled"
          /\ appNpc = profileCall.baseNpc
          /\ appDna = Str(profileCall.personalityDna)
          /\ appDna = Str(genDna)
          /\ npcProfile = Str(profileCall.profileResult.value)

\* the card of a second cycle, whose character is not that of the first
C26_Witness ==
    /\ CharacterAssigned
    /\ imageCall.at # "idle"
    /\ imageCall.npc # appNpc
    /\ appNpc = profileCall.baseNpc

\* all three are null again after a cycle that failed
C26_ClearedWitness ==
    /\ CharacterCleared
    /\ profileCall.at = "done"
    /\ profileCall.profileResult.status = "rejected"
    /\ imageCall.at # "idle"

(***************************************************************************)
(* Properties of the loading flag.                                         *)
(***************************************************************************)
\* a handleGenerateProfile call has passed its first updates and not its last
CycleInFlight == profileCall.at = "await"

\* C27: isProfileLoading is true exactly while a handleGenerateProfile call is
\* between its first and its last state update; during that time the Generate
\* button is disabled and no second call can start, so at most one cycle is in
\* flight; a call starts only when the previous one has finished.
C27_OneCycle ==
    /\ [](isProfileLoading <=> CycleInFlight)
    /\ [](CycleInFlight => (GenerateDisabled /\ ~ENABLED HandleGenerateProfile))
    /\ [][ (profileCall' # profileCall /\ profileCall'.at = "await"
               /\ profileCall'.profileResult = Pending /\ profileCall'.imageResult = Pending)
           => (~CycleInFlight /\ ~isProfileLoading /\ isProfileLoading') ]_vars
    /\ [][ (CycleInFlight /\ profileCall'.at = "done") => ~isProfileLoading' ]_vars

\* a second cycle is in flight, after a card whose portrait was retried
C27_Witness ==
    /\ CycleInFlight
    /\ isProfileLoading
    /\ profileCall.profileResult.status = "fulfilled"
    /\ profileCall.imageResult = Pending
    /\ imageCall.at = "done"

\* the call in flight has both results, with these statuses
SettledAs(profileStatus, imageStatus) ==
    /\ profileCall.at \in {"await", "done"}
    /\ profileCall.profileResult.status = profileStatus
    /\ profileCall.imageResult.status = imageStatus
Outcomes == {"fulfilled", "rejected"}

\* C28: when both service calls settle in the end, every handleGenerateProfile
\* call that has set isProfileLoading sets it to false again; whichever of the
\* four combinations of results the two calls settle with, the call then makes
\* its last update and the flag is false.
C28_LoadingEnds ==
    /\ isProfileLoading ~> ~isProfileLoading
    /\ \A p \in Outcomes : \A q \in Outcomes :
          (CycleInFlight /\ SettledAs(p, q))
              ~> (profileCall.at = "done" /\ SettledAs(p, q) /\ ~isProfileLoading)

\* a cycle has ended with both calls failed by the service
C28_Witness ==
    /\ aiClient
    /\ profileCall.at = "done"
    /\ SettledAs("rejected", "rejected")
    /\ ~isProfileLoading

(***************************************************************************)
(* Properties of the skills line.                                          *)
(***************************************************************************)
\* the final score of the ability that governs a skill
GoverningScore(skill) ==
    IF skill \in {Athletics} THEN stats.abilityScores.str
    ELSE IF skill \in {Stealth, SleightOfHand} THEN stats.abilityScores.dex
    ELSE IF skill \in {Arcana, History} THEN stats.abilityScores.int
    ELSE IF skill \in {Perception, AnimalHandling} THEN stats.abilityScores.wis
    ELSE stats.abilityScores.cha
\* ability modifier + proficiency bonus
ProficientBonus(skill) == ((GoverningScore(skill) - 10) \div 2) + profBonus
\* '<skill> +<bonus>' of the listed skill i
ProficientText(i) ==
    statsLocals.skills[i].skill \o <<" ">>
        \o (IF ProficientBonus(statsLocals.skills[i].skill) >= 0 THEN <<"+">> ELSE <<>>)
        \o NumberToString(ProficientBonus(statsLocals.skills[i].skill))
PerceptionListed ==
    \E i \in 1..Len(statsLocals.skills) : statsLocals.skills[i].skill = Perception

\* C29: every skill of the skills string is shown with its governing ability
\* modifier plus the proficiency bonus 2, and when Perception is listed the
\* passive Perception is 10 plus that Perception bonus.
C29_SkillBonuses ==
    cardNpc # Null =>
        /\ stats.skills =
              Join([i \in 1..Len(statsLocals.skills) |-> ProficientText(i)], <<",", " ">>)
        /\ PerceptionListed =>
              stats.senses = <<"p", "a", "s", "s", "i", "v", "e", " ", "P", "e", "r", "c", "e",
                               "p", "t", "i", "o", "n", " ">>
                                 \o NumberToString(10 + ProficientBonus(Perception))

(***************************************************************************)
(* Properties of the range of the hit points.                              *)
(***************************************************************************)
\* floor(4.5 x count) + count x modifier, before Math.max(1, ...)
UnclampedHp == ((9 * HitDieCount) \div 2) + (HitDieCount * ConModifier)

\* C30: for every race and profession the hit points are between 4 and 16;
\* the value before the minimum of 1 is applied is already the hit points, and
\* the challenge is never '1/4 (50 XP)'.
C30_HpRange ==
    cardNpc # Null =>
        /\ statsLocals.hp \in 4..16
        /\ UnclampedHp >= 1
        /\ statsLocals.hp = UnclampedHp
        /\ stats.challenge # <<"1", "/", "4", " ", "(", "5", "0", " ", "X", "P", ")">>
        /\ stats.challenge \in {<<"0", " ", "(", "1", "0", " ", "X", "P", ")">>,
                                 <<"1", "/", "8", " ", "(", "2", "5", " ", "X", "P", ")">>}

\* the least hit points: one hit die and a Constitution modifier of 0
C30_Witness ==
    /\ cardNpc # Null
    /\ statsLocals.hp = 4
    /\ HitDieCount = 1
    /\ ConModifier = 0

\* the most hit points: a dwarf smith, three hit dice and a modifier of +1
C30_HighWitness ==
    /\ cardNpc # Null
    /\ cardNpc.race = "Dwarf"
    /\ statsLocals.hp = 16
    /\ stats.abilityScores.con = 13

(***************************************************************************)
(* Properties of the header locations.                                     *)
(***************************************************************************)
\* the text in front of the header line of position j, up to its line break
SectionsBefore(parts, j) ==
    SectionsFrom([parts EXCEPT !.order = SubSeq(parts.order, 1, j - 1)], 1) \o <<"\n">>
TextBefore(parts, j) ==
    IF parts.preamble = "none" THEN Tail(SectionsBefore(parts, j))
    ELSE Preamble(parts.preamble) \o SectionsBefore(parts, j)

\* the start of the run of white space that ends text[1..p]
RECURSIVE RunStart(_, _)
RunStart(text, p) ==
    IF p >= 1 /\ IsWhiteSpace(text[p]) THEN RunStart(text, p - 1) ELSE p + 1
\* the first line break at or after p
RECURSIVE FirstBreak(_, _)
FirstBreak(text, p) == IF text[p] = "\n" THEN p ELSE FirstBreak(text, p + 1)

\* where the header line of position j is expected to be matched in the text:
\* from the first line break of the white space in front of it (or the start of
\* the text) to the end of its title and closing '**', as 0-based indices
ExpectedStartIn(before) ==
    IF before = <<>> THEN 0 ELSE FirstBreak(before, RunStart(before, Len(before))) - 1
ExpectedStart(parts, j) == ExpectedStartIn(TextBefore(parts, j))
ExpectedStop(parts, j) ==
    Len(TextBefore(parts, j)) + Len(StyleAt(parts, j).prefix)
        + Len(allHeaders[parts.order[j]]) + Len(StyleAt(parts, j).closing)

\* where the text is expected to be cut: at the 'Profile' line of the card
\* preamble, else at the first header line, else at its end
ExpectedCut(parts, text) ==
    IF parts.preamble = "card" THEN Len(CardPreamble) - 18
    ELSE IF parts.order = <<>> THEN Len(text)
    ELSE ExpectedStart(parts, 1)

\* C23: headerLocations holds exactly the titles that head a line of the
\* text, each at the first line it heads (after optional white space, '#'s and
\* '**', in any letter case), in the order of their positions in the text; a
\* title that only occurs inside a line, or not at all, has no entry.
C23_HeaderLocations ==
    profile # <<>> =>
        /\ parseLocals.firstSectionIndex = ExpectedCut(profileParts, profile)
        /\ Len(parseLocals.headerLocations) = Len(profileParts.order)
        /\ \A j \in 1..Len(profileParts.order) :
              /\ parseLocals.headerLocations[j].header = allHeaders[profileParts.order[j]]
              /\ parseLocals.headerLocations[j].index =
                    ExpectedStart(profileParts, j) - ExpectedCut(profileParts, profile)
              /\ parseLocals.headerLocations[j].headerLength =
                    ExpectedStop(profileParts, j) - ExpectedStart(profileParts, j)

\* sections in an order that is not the order of the title list, each title
\* heading a second line inside its section: one entry for each title, in the
\* order of the text
C23_Witness ==
    /\ profile # <<>>
    /\ profileParts.body = "echo"
    /\ \E j \in 1..(Len(profileParts.order) - 1) :
          profileParts.order[j] > profileParts.order[j + 1]
    /\ Len(parseLocals.headerLocations) = Len(profileParts.order)
    /\ \A j \in 1..(Len(parseLocals.headerLocations) - 1) :
          parseLocals.headerLocations[j].index < parseLocals.headerLocations[j + 1].index

\* 'Secrets' occurs only inside lines of the text and has no entry
C23_InsideLineWitness ==
    /\ profile # <<>>
    /\ profileParts.body = "ruled"
    /\ Len(profileParts.order) = 2
    /\ \A j \in 1..2 : profileParts.order[j] # 6
    /\ \A j \in 1..Len(parseLocals.headerLocations) :
          parseLocals.headerLocations[j].header # allHeaders[6]
====
